---- MODULE Spec2Model ----
(***************************************************************************)
(* Position lifecycle engine of solbolt: Position (exit state machine),    *)
(* PositionManager (periodic checks, exit signals, emergency close,        *)
(* shutdown), the execution layer's positionExit handler, the             *)
(* RPCRateLimiter (rolling one-second window, retry with backoff), the     *)
(* PriorityFeeManager with its plugins, and the bonding-curve parser and   *)
(* manager.                                                                *)
(*                                                                         *)
(* Prices are integers in units of 0.01 SOL, percentages are integers in   *)
(* percent, times are seconds.  The event loop is modelled by interleaving *)
(* one action per callback segment between two awaits.                     *)
(***************************************************************************)
EXTENDS Integers, Sequences, FiniteSets, Bags, TLC

VARIABLES
    heap,            \* Position objects ever constructed, by allocation index
    positions,       \* PositionManager.positions: Map in insertion order, <<[key, obj]>>
    monitoringTasks, \* PositionManager.monitoringTasks: position id -> timer handle
    timers,          \* interval timers that are still scheduled (not cleared)
    checks,          \* checkPositionExit calls suspended at the price-fetch await (bag)
    sells,           \* handlePositionExit calls suspended at the sell await (bag)
    listeners,       \* TRUE while the execution layer's listeners are attached
    exited,          \* per Position object: a periodic check has emitted positionExit
    em,              \* emergencyCloseAllPositions call in progress
    sd,              \* shutdown call in progress
    now,             \* Date.now(), seconds
    last,            \* the step just taken: operation, argument, return value
    emitted,         \* the signals emitted by the step just taken
    steps,           \* number of monitor steps taken
    rlConfig,        \* RPCRateLimiter.config
    requestTimes,    \* RPCRateLimiter.requestTimes
    callers,         \* waitForRateLimit calls: position of each caller
    clock,           \* Date.now() of the rate limiter, milliseconds
    started,         \* times at which waitForRateLimit recorded a request and returned
    ex,              \* the executeRPCCall call: position, attempt, history
    feeConfig,       \* PriorityFeeManager.config
    feeResult,       \* the last PriorityFeeResult with the inputs that produced it
    pos,             \* a single Position driven directly by price ticks
    ticks,           \* the shouldExit calls made on pos: price, time, state, result
    tclock,          \* Date.now() of the tick-driven Position, seconds
    tconfig,         \* the PositionConfig the tick-driven Position was created with
    pnlCall,         \* the last calculatePnL call on pos: position, price, result
    chain,           \* what getAccountInfo answers for each bonding-curve address
    batch            \* the getMultipleCurveStates call in progress

vars == <<heap, positions, monitoringTasks, timers, checks, sells, listeners,
          exited, em, sd, now, last, emitted, steps,
          rlConfig, requestTimes, callers, clock, started,
          ex, feeConfig, feeResult, pos, ticks, tclock, tconfig, pnlCall,
          chain, batch>>

pmVars == <<heap, positions, monitoringTasks, timers, checks, sells, listeners,
            exited, em, sd, now, last, emitted, steps>>

rlVars == <<rlConfig, requestTimes, callers, clock, started>>

exVars == <<ex>>

feeVars == <<feeConfig, feeResult>>

tickVars == <<pos, ticks, tclock, tconfig, pnlCall>>

curveVars == <<chain, batch>>

-----------------------------------------------------------------------------
(* Bounds of the model. *)

NumTokens == 2
MaxPositions == 2
MaxSuspended == 2
MaxSteps == 9

MaxCallers == 5
MaxClock == 2000

(* Program constants. *)

(* The rolling window of the rate limiter, milliseconds. *)
WindowMs == 1000

(* JavaScript undefined for an optional number. *)
Undefined == -1

(* getBondingCurveData's null result. *)
Null == -2

NoReason == "undefined"
NoSignature == "undefined"

Tokens == 1..NumTokens

Truthy(x) == x # Undefined /\ x # 0

-----------------------------------------------------------------------------
(* Inputs. *)

EntryPrices == {100}
SellPrices == {90, 150}
FetchErrors == {"RpcError", "NoData", "InvalidDiscriminator", "InvalidReserves"}

(* What the chain answers to one account fetch: an error, or a price. *)
Outcomes(prices) ==
    {[error |-> e, price |-> Undefined] : e \in FetchErrors}
        \cup {[error |-> "", price |-> p] : p \in prices}

(* The monitor is explored with a price that signals no exit and one that  *)
(* reaches the take-profit threshold.                                      *)
MonitorOutcomes == Outcomes({110, 151})

PositionConfigs ==
    { [takeProfitPercentage |-> 50, stopLossPercentage |-> 20,
       maxHoldTime |-> 10, trailingStopLoss |-> 10] }

-----------------------------------------------------------------------------
(* Position: the exit state machine. *)

createFromBuyResult(mint, entryPrice, quantity, solInvested, config, transactionSignature, t) ==
    [ mint |-> mint,
      entryPrice |-> entryPrice,
      quantity |-> quantity,
      entryTime |-> t,
      solInvested |-> solInvested,
      takeProfitPrice |->
          IF config.takeProfitPercentage # Undefined
          THEN (entryPrice * (100 + config.takeProfitPercentage)) \div 100
          ELSE Undefined,
      stopLossPrice |->
          IF config.stopLossPercentage # Undefined
          THEN (entryPrice * (100 - config.stopLossPercentage)) \div 100
          ELSE Undefined,
      maxHoldTime |-> config.maxHoldTime,
      trailingStopPrice |-> Undefined,
      highWaterMark |-> entryPrice,
      isActive |-> TRUE,
      exitReason |-> NoReason,
      exitPrice |-> Undefined,
      exitTime |-> Undefined,
      transactionSignature |-> transactionSignature ]

(* getConfig rebuilds the configuration from the stored thresholds; the     *)
(* record it returns has no trailingStopLoss key.                          *)
getConfig(p) ==
    [ takeProfitPercentage |->
          IF Truthy(p.takeProfitPrice)
          THEN ((p.takeProfitPrice - p.entryPrice) * 100) \div p.entryPrice
          ELSE Undefined,
      stopLossPercentage |->
          IF Truthy(p.stopLossPrice)
          THEN ((p.entryPrice - p.stopLossPrice) * 100) \div p.entryPrice
          ELSE Undefined,
      maxHoldTime |-> p.maxHoldTime,
      trailingStopLoss |-> Undefined ]

updateTrailingStop(p, currentPrice) ==
    LET config == getConfig(p)
        newTrailingStop == (currentPrice * (100 - config.trailingStopLoss)) \div 100
    IN  IF ~Truthy(config.trailingStopLoss) THEN p
        ELSE IF ~Truthy(p.trailingStopPrice) \/ newTrailingStop > p.trailingStopPrice
             THEN [p EXCEPT !.trailingStopPrice = newTrailingStop]
             ELSE p

(* A shouldExit that takes every tick's price as the high water mark. *)
shouldExitState_NoCompare(p, currentPrice) ==
    IF ~p.isActive THEN p
    ELSE updateTrailingStop([p EXCEPT !.highWaterMark = currentPrice], currentPrice)

(* A shouldExit that tracks the high water mark of a closed position too. *)
shouldExitState_IgnoresClosed(p, currentPrice) ==
    IF currentPrice > (IF Truthy(p.highWaterMark) THEN p.highWaterMark ELSE 0)
    THEN updateTrailingStop([p EXCEPT !.highWaterMark = currentPrice], currentPrice)
    ELSE p

(* The Position after shouldExit(currentPrice). *)
shouldExitState(p, currentPrice) ==
    IF ~p.isActive THEN p
    ELSE IF currentPrice > (IF Truthy(p.highWaterMark) THEN p.highWaterMark ELSE 0)
         THEN updateTrailingStop([p EXCEPT !.highWaterMark = currentPrice], currentPrice)
         ELSE p

(* A shouldExit that tests the stop loss before the take profit. *)
shouldExit_StopLossFirst(p, currentPrice, t) ==
    LET q == shouldExitState(p, currentPrice)
    IN  IF ~p.isActive
        THEN [shouldExit |-> FALSE, reason |-> NoReason, urgency |-> "low"]
        ELSE IF Truthy(q.stopLossPrice) /\ currentPrice <= q.stopLossPrice
        THEN [shouldExit |-> TRUE, reason |-> "stop_loss", urgency |-> "high"]
        ELSE IF Truthy(q.takeProfitPrice) /\ currentPrice >= q.takeProfitPrice
        THEN [shouldExit |-> TRUE, reason |-> "take_profit", urgency |-> "high"]
        ELSE IF Truthy(q.trailingStopPrice) /\ currentPrice <= q.trailingStopPrice
        THEN [shouldExit |-> TRUE, reason |-> "stop_loss", urgency |-> "high"]
        ELSE IF Truthy(q.maxHoldTime) /\ (t - q.entryTime) >= q.maxHoldTime
        THEN [shouldExit |-> TRUE, reason |-> "max_hold_time", urgency |-> "medium"]
        ELSE [shouldExit |-> FALSE, reason |-> NoReason, urgency |-> "low"]

(* A shouldExit that tests the hold time before the price thresholds. *)
shouldExit_HoldTimeFirst(p, currentPrice, t) ==
    LET q == shouldExitState(p, currentPrice)
    IN  IF ~p.isActive
        THEN [shouldExit |-> FALSE, reason |-> NoReason, urgency |-> "low"]
        ELSE IF Truthy(q.maxHoldTime) /\ (t - q.entryTime) >= q.maxHoldTime
        THEN [shouldExit |-> TRUE, reason |-> "max_hold_time", urgency |-> "medium"]
        ELSE IF Truthy(q.takeProfitPrice) /\ currentPrice >= q.takeProfitPrice
        THEN [shouldExit |-> TRUE, reason |-> "take_profit", urgency |-> "high"]
        ELSE IF Truthy(q.stopLossPrice) /\ currentPrice <= q.stopLossPrice
        THEN [shouldExit |-> TRUE, reason |-> "stop_loss", urgency |-> "high"]
        ELSE IF Truthy(q.trailingStopPrice) /\ currentPrice <= q.trailingStopPrice
        THEN [shouldExit |-> TRUE, reason |-> "stop_loss", urgency |-> "high"]
        ELSE [shouldExit |-> FALSE, reason |-> NoReason, urgency |-> "low"]

(* The ExitConditionResult of shouldExit(currentPrice) at time t. *)
shouldExit(p, currentPrice, t) ==
    LET q == shouldExitState(p, currentPrice)
    IN  IF ~p.isActive
        THEN [shouldExit |-> FALSE, reason |-> NoReason, urgency |-> "low"]
        ELSE IF Truthy(q.takeProfitPrice) /\ currentPrice >= q.takeProfitPrice
        THEN [shouldExit |-> TRUE, reason |-> "take_profit", urgency |-> "high"]
        ELSE IF Truthy(q.stopLossPrice) /\ currentPrice <= q.stopLossPrice
        THEN [shouldExit |-> TRUE, reason |-> "stop_loss", urgency |-> "high"]
        ELSE IF Truthy(q.trailingStopPrice) /\ currentPrice <= q.trailingStopPrice
        THEN [shouldExit |-> TRUE, reason |-> "stop_loss", urgency |-> "high"]
        ELSE IF Truthy(q.maxHoldTime) /\ (t - q.entryTime) >= q.maxHoldTime
        THEN [shouldExit |-> TRUE, reason |-> "max_hold_time", urgency |-> "medium"]
        ELSE [shouldExit |-> FALSE, reason |-> NoReason, urgency |-> "low"]

(* A close that flips isActive instead of clearing it. *)
Position_closePosition_Toggle(p, exitPrice, exitReason, transactionSignature, t) ==
    [p EXCEPT !.isActive = ~@,
              !.exitPrice = exitPrice,
              !.exitReason = exitReason,
              !.exitTime = t,
              !.transactionSignature =
                  IF transactionSignature # NoSignature THEN transactionSignature ELSE @]

(* Position.closePosition: no guard on isActive. *)
Position_closePosition(p, exitPrice, exitReason, transactionSignature, t) ==
    [p EXCEPT !.isActive = FALSE,
              !.exitPrice = exitPrice,
              !.exitReason = exitReason,
              !.exitTime = t,
              !.transactionSignature =
                  IF transactionSignature # NoSignature THEN transactionSignature ELSE @]

(* A calculatePnL whose roi is relative to the current value. *)
calculatePnL_RoiOnValue(p, currentPrice) ==
    LET priceToUse == IF p.isActive THEN currentPrice ELSE p.exitPrice
        priceChange == priceToUse - p.entryPrice
        unrealizedPnlSol == priceChange * p.quantity
    IN  [ entryPrice |-> p.entryPrice,
          currentPrice |-> priceToUse,
          priceChange |-> priceChange,
          priceChangePercent |-> (priceChange * 100) \div p.entryPrice,
          unrealizedPnlSol |-> unrealizedPnlSol,
          roi |-> (unrealizedPnlSol * 100) \div (priceToUse * p.quantity) ]

(* A calculatePnL that uses the price it is given even after the close. *)
calculatePnL_IgnoresExitPrice(p, currentPrice) ==
    LET priceToUse == currentPrice
        priceChange == priceToUse - p.entryPrice
        unrealizedPnlSol == priceChange * p.quantity
    IN  IF currentPrice = Undefined
        THEN [error |-> "Current price required for active position"]
        ELSE
        [ entryPrice |-> p.entryPrice,
          currentPrice |-> priceToUse,
          priceChange |-> priceChange,
          priceChangePercent |-> (priceChange * 100) \div p.entryPrice,
          unrealizedPnlSol |-> unrealizedPnlSol,
          roi |-> (unrealizedPnlSol * 100) \div p.solInvested ]

(* calculatePnL(currentPrice?): an active position needs the price, a      *)
(* closed position uses its exitPrice.                                     *)
calculatePnL(p, currentPrice) ==
    LET priceToUse == IF p.isActive THEN currentPrice ELSE p.exitPrice
        priceChange == priceToUse - p.entryPrice
        unrealizedPnlSol == priceChange * p.quantity
    IN  IF p.isActive /\ currentPrice = Undefined
        THEN [error |-> "Current price required for active position"]
        ELSE
        [ entryPrice |-> p.entryPrice,
          currentPrice |-> priceToUse,
          priceChange |-> priceChange,
          priceChangePercent |-> (priceChange * 100) \div p.entryPrice,
          unrealizedPnlSol |-> unrealizedPnlSol,
          roi |-> (unrealizedPnlSol * 100) \div p.solInvested ]

-----------------------------------------------------------------------------
(* PositionManager: the Map helpers. *)

RECURSIVE IndexOfKey(_, _)
IndexOfKey(m, key) ==
    IF m = <<>> THEN 0
    ELSE IF m[Len(m)].key = key THEN Len(m)
    ELSE IndexOfKey(SubSeq(m, 1, Len(m) - 1), key)

MapHas(m, key) == IndexOfKey(m, key) # 0
MapGet(m, key) == m[IndexOfKey(m, key)].obj
MapSet(m, key, obj) ==
    IF MapHas(m, key)
    THEN [m EXCEPT ![IndexOfKey(m, key)] = [key |-> key, obj |-> obj]]
    ELSE Append(m, [key |-> key, obj |-> obj])

(* getActivePositions: the registered Position objects that are active, in *)
(* Map order.                                                              *)
getActivePositions ==
    LET act == SelectSeq(positions, LAMBDA e : heap[e.obj].isActive)
    IN  [i \in 1..Len(act) |-> act[i].obj]

(* A getBondingCurveData whose failures come back as a zero price. *)
SolanaService_getBondingCurveData_ZeroOnError(bondingCurveAddress, outcome) ==
    IF bondingCurveAddress = "" THEN 0
    ELSE IF outcome.error # "" THEN 0
    ELSE outcome.price

(* SolanaService.getBondingCurveData: every failure is caught and becomes  *)
(* null; an empty address makes the PublicKey constructor throw.           *)
SolanaService_getBondingCurveData(bondingCurveAddress, outcome) ==
    IF bondingCurveAddress = "" THEN Null
    ELSE IF outcome.error # "" THEN Null
    ELSE outcome.price

(* stopMonitoring: the timers and the task map after it. *)
stopMonitoringTimers(positionId) ==
    IF positionId \in DOMAIN monitoringTasks
    THEN timers \ {monitoringTasks[positionId]}
    ELSE timers

stopMonitoringTasks(positionId) ==
    [k \in DOMAIN monitoringTasks \ {positionId} |-> monitoringTasks[k]]

(* The async calls that are suspended at an await of an external call. *)
Suspended == BagCardinality(checks) + BagCardinality(sells)

(* emit('positionExit'): the attached listener starts handlePositionExit,  *)
(* which suspends at its sell.                                             *)
SellsAfterExit(token, exitReason) ==
    IF listeners
    THEN sells (+) SetToBag({[token |-> token, exitReason |-> exitReason]})
    ELSE sells

-----------------------------------------------------------------------------
(* PositionManager: operations. *)

(* The record of a step: the operation, the position id it is about, what *)
(* it returned, and its other arguments.                                  *)
Step(op, id, ret) == [op |-> op, id |-> id, ret |-> ret, arg |-> <<>>]

bondingCurveOf(token) == "curve"

(* createPosition: the Position is registered under the token address and  *)
(* a new interval timer is stored in the task map; a timer already stored  *)
(* under that key is overwritten without being cleared.                    *)
CreatePosition(token, entryPrice, config) ==
    /\ Len(heap) < MaxPositions
    /\ LET o == Len(heap) + 1
       IN  /\ heap' = Append(heap,
                  createFromBuyResult(token, entryPrice, 100 \div entryPrice, 100,
                                      config, "buySig", now))
           /\ exited' = Append(exited, FALSE)
           /\ positions' = MapSet(positions, token, o)
           /\ timers' = timers \cup {o}
           /\ monitoringTasks' =
                  [k \in DOMAIN monitoringTasks \cup {token} |->
                      IF k = token THEN o ELSE monitoringTasks[k]]
           /\ last' = Step("createPosition", token, "position")
    /\ emitted' = <<>>
    /\ UNCHANGED <<checks, sells, listeners, em, sd, now>>

(* The guard of checkPositionExit: !position || !position.isActive. *)
checkGuardFails(positionId) ==
    IF ~MapHas(positions, positionId) THEN TRUE
    ELSE ~heap[MapGet(positions, positionId)].isActive

(* A tick of interval timer h whose check stops at the guard of            *)
(* checkPositionExit.                                                      *)
TickStop(h) ==
    /\ h \in timers
    /\ LET positionId == heap[h].mint
       IN  /\ checkGuardFails(positionId)
           /\ timers' = stopMonitoringTimers(positionId)
           /\ monitoringTasks' = stopMonitoringTasks(positionId)
           /\ last' = Step("checkStopped", positionId, "void")
    /\ emitted' = <<>>
    /\ UNCHANGED <<heap, positions, checks, sells, listeners, exited, em, sd, now>>

(* A tick that starts its fetch only when no other check is waiting for   *)
(* one.                                                                   *)
TickFetch_Serial(h) ==
    /\ h \in timers
    /\ Suspended < MaxSuspended
    /\ checks = EmptyBag
    /\ LET positionId == heap[h].mint
       IN  /\ ~checkGuardFails(positionId)
           /\ checks' = checks (+)
                  SetToBag({[id |-> positionId, pos |-> MapGet(positions, positionId)]})
           /\ last' = Step("checkFetching", positionId, "pending")
    /\ emitted' = <<>>
    /\ UNCHANGED <<heap, positions, monitoringTasks, timers, sells, listeners,
                   exited, em, sd, now>>

(* A tick of interval timer h whose check reaches the price fetch and      *)
(* suspends there; setInterval does not wait for earlier callbacks.        *)
TickFetch(h) ==
    /\ h \in timers
    /\ Suspended < MaxSuspended
    /\ LET positionId == heap[h].mint
       IN  /\ ~checkGuardFails(positionId)
           /\ checks' = checks (+)
                  SetToBag({[id |-> positionId, pos |-> MapGet(positions, positionId)]})
           /\ last' = Step("checkFetching", positionId, "pending")
    /\ emitted' = <<>>
    /\ UNCHANGED <<heap, positions, monitoringTasks, timers, sells, listeners,
                   exited, em, sd, now>>

(* The fetch of check c returned null: the check ends. *)
CheckSkip(c, outcome) ==
    /\ c \in BagToSet(checks)
    /\ SolanaService_getBondingCurveData(bondingCurveOf(c.id), outcome) = Null
    /\ checks' = checks (-) SetToBag({c})
    /\ last' = [Step("checkSkipped", c.id, "void") EXCEPT !.arg = <<outcome.error>>]
    /\ emitted' = <<>>
    /\ UNCHANGED <<heap, positions, monitoringTasks, timers, sells, listeners,
                   exited, em, sd, now>>

(* The fetch of check c returned a price and shouldExit signals an exit. *)
CheckExit(c, outcome) ==
    /\ c \in BagToSet(checks)
    /\ LET currentPrice == SolanaService_getBondingCurveData(bondingCurveOf(c.id), outcome)
           exitCondition == shouldExit(heap[c.pos], currentPrice, now)
       IN  /\ currentPrice # Null
           /\ exitCondition.shouldExit /\ exitCondition.reason # NoReason
           /\ heap' = [heap EXCEPT ![c.pos] = shouldExitState(@, currentPrice)]
           /\ emitted' = << [kind |-> "positionExit", position |-> c.pos, token |-> c.id,
                             currentPrice |-> currentPrice,
                             exitReason |-> exitCondition.reason,
                             urgency |-> exitCondition.urgency] >>
           /\ sells' = SellsAfterExit(c.id, exitCondition.reason)
           /\ exited' = [exited EXCEPT ![c.pos] = TRUE]
           /\ timers' = stopMonitoringTimers(c.id)
           /\ monitoringTasks' = stopMonitoringTasks(c.id)
    /\ checks' = checks (-) SetToBag({c})
    /\ last' = [Step("checkExit", c.id, "void") EXCEPT !.arg = <<outcome.error>>]
    /\ UNCHANGED <<positions, listeners, em, sd, now>>

(* A check that reports the PnL against the entry price, not the fetched *)
(* price.                                                                *)
CheckUpdate_StalePnL(c, outcome) ==
    /\ c \in BagToSet(checks)
    /\ LET currentPrice == SolanaService_getBondingCurveData(bondingCurveOf(c.id), outcome)
           exitCondition == shouldExit(heap[c.pos], currentPrice, now)
           after == shouldExitState(heap[c.pos], currentPrice)
           pnl == calculatePnL(after, after.entryPrice)
       IN  /\ currentPrice # Null
           /\ ~(exitCondition.shouldExit /\ exitCondition.reason # NoReason)
           /\ heap' = [heap EXCEPT ![c.pos] = after]
           /\ emitted' = << [kind |-> "priceUpdate", position |-> c.pos, token |-> c.id,
                             currentPrice |-> currentPrice,
                             entryPrice |-> after.entryPrice,
                             pnl |-> pnl.unrealizedPnlSol,
                             pnlPercent |-> pnl.priceChangePercent] >>
    /\ checks' = checks (-) SetToBag({c})
    /\ last' = [Step("checkUpdate", c.id, "void") EXCEPT !.arg = <<outcome.error>>]
    /\ UNCHANGED <<positions, monitoringTasks, timers, sells, listeners,
                   exited, em, sd, now>>

(* The fetch of check c returned a price and shouldExit signals no exit. *)
CheckUpdate(c, outcome) ==
    /\ c \in BagToSet(checks)
    /\ LET currentPrice == SolanaService_getBondingCurveData(bondingCurveOf(c.id), outcome)
           exitCondition == shouldExit(heap[c.pos], currentPrice, now)
           after == shouldExitState(heap[c.pos], currentPrice)
           pnl == calculatePnL(after, currentPrice)
       IN  /\ currentPrice # Null
           /\ ~(exitCondition.shouldExit /\ exitCondition.reason # NoReason)
           /\ heap' = [heap EXCEPT ![c.pos] = after]
           /\ emitted' = << [kind |-> "priceUpdate", position |-> c.pos, token |-> c.id,
                             currentPrice |-> currentPrice,
                             entryPrice |-> after.entryPrice,
                             pnl |-> pnl.unrealizedPnlSol,
                             pnlPercent |-> pnl.priceChangePercent] >>
    /\ checks' = checks (-) SetToBag({c})
    /\ last' = [Step("checkUpdate", c.id, "void") EXCEPT !.arg = <<outcome.error>>]
    /\ UNCHANGED <<positions, monitoringTasks, timers, sells, listeners,
                   exited, em, sd, now>>

(* PositionManager.closePosition as a step fragment. *)
closePosition(positionId, exitPrice, exitReason, transactionSignature) ==
    IF ~MapHas(positions, positionId)
    THEN UNCHANGED <<heap, timers, monitoringTasks>>
    ELSE /\ heap' = [heap EXCEPT ![MapGet(positions, positionId)] =
                        Position_closePosition(@, exitPrice, exitReason,
                                               transactionSignature, now)]
         /\ timers' = stopMonitoringTimers(positionId)
         /\ monitoringTasks' = stopMonitoringTasks(positionId)

closePositionReturn(positionId) ==
    IF MapHas(positions, positionId) THEN "true" ELSE "false"

(* handlePositionExit: the sell succeeded, the position is closed with the *)
(* sell's price and signature.                                             *)
SellSucceeds(s, price) ==
    /\ s \in BagToSet(sells)
    /\ sells' = sells (-) SetToBag({s})
    /\ closePosition(s.token, price, s.exitReason, "sellSig")
    /\ last' = [Step("sellClosed", s.token, closePositionReturn(s.token))
                  EXCEPT !.arg = <<price, s.exitReason>>]
    /\ emitted' = <<>>
    /\ UNCHANGED <<positions, checks, listeners, exited, em, sd, now>>

(* handlePositionExit: the sell returned null or threw. *)
SellFails(s) ==
    /\ s \in BagToSet(sells)
    /\ sells' = sells (-) SetToBag({s})
    /\ last' = Step("sellFailed", s.token, "void")
    /\ emitted' = <<>>
    /\ UNCHANGED <<heap, positions, monitoringTasks, timers, checks, listeners,
                   exited, em, sd, now>>

-----------------------------------------------------------------------------
(* emergencyCloseAllPositions and shutdown. *)

EmIdle == [pc |-> "idle", queue |-> <<>>, caller |-> "none", snapshot |-> <<>>]
SdIdle == [pc |-> "idle", force |-> FALSE]

(* The end of shutdown: every timer of the task map is cleared, the        *)
(* listeners are removed, the positions are dropped if forceClosePositions. *)
ShutdownFinish(force) ==
    /\ timers' = timers \ {monitoringTasks[k] : k \in DOMAIN monitoringTasks}
    /\ monitoringTasks' = [k \in {} |-> 0]
    /\ listeners' = FALSE
    /\ positions' = IF force THEN <<>> ELSE positions
    /\ sd' = SdIdle
    /\ last' = Step("shutdown", 0, "void")

(* emergencyCloseAllPositions called by the bot with no active position. *)
EmergencyNone ==
    /\ em.pc = "idle" /\ sd.pc = "idle"
    /\ getActivePositions = <<>>
    /\ last' = Step("emergencyClose", 0, "void")
    /\ emitted' = <<>>
    /\ UNCHANGED <<heap, positions, monitoringTasks, timers, checks, sells, listeners,
                   exited, em, sd, now>>

(* emergencyCloseAllPositions called by the bot: it snapshots the active   *)
(* positions and suspends at the first price fetch.                        *)
EmergencyStart ==
    /\ em.pc = "idle" /\ sd.pc = "idle"
    /\ getActivePositions # <<>>
    /\ em' = [pc |-> "fetch", queue |-> getActivePositions, caller |-> "api",
              snapshot |-> getActivePositions]
    /\ last' = Step("emergencyStarted", 0, "pending")
    /\ emitted' = <<>>
    /\ UNCHANGED <<heap, positions, monitoringTasks, timers, checks, sells, listeners,
                   exited, sd, now>>

(* The fetch for the head of the queue is over (its token object has an    *)
(* empty bondingCurve): positionExit is emitted with reason manual and the *)
(* call suspends at its two-second sleep.                                  *)
EmergencyEmit(outcome) ==
    /\ em.pc = "fetch"
    /\ LET o == Head(em.queue)
           curveData == SolanaService_getBondingCurveData("", outcome)
           currentPrice == IF curveData # Null THEN curveData ELSE heap[o].entryPrice
       IN  /\ emitted' = << [kind |-> "positionExit", position |-> o,
                             token |-> heap[o].mint,
                             currentPrice |-> currentPrice,
                             exitReason |-> "manual", urgency |-> "high"] >>
           /\ sells' = SellsAfterExit(heap[o].mint, "manual")
           /\ listeners => Suspended < MaxSuspended
           /\ last' = [Step("emergencyEmit", heap[o].mint, "pending")
                         EXCEPT !.arg = <<outcome>>]
    /\ em' = [em EXCEPT !.pc = "sleep"]
    /\ UNCHANGED <<heap, positions, monitoringTasks, timers, checks, listeners, exited,
                   sd, now>>

(* The sleep is over and positions remain in the snapshot. *)
EmergencyNext ==
    /\ em.pc = "sleep"
    /\ Len(em.queue) > 1
    /\ em' = [em EXCEPT !.pc = "fetch", !.queue = Tail(em.queue)]
    /\ last' = Step("emergencyNext", 0, "pending")
    /\ emitted' = <<>>
    /\ UNCHANGED <<heap, positions, monitoringTasks, timers, checks, sells, listeners,
                   exited, sd, now>>

(* The sleep for the last position is over: emergencyCloseAllPositions     *)
(* returns; a shutdown that awaits it becomes runnable.                    *)
EmergencyReturn ==
    /\ em.pc = "sleep"
    /\ Len(em.queue) = 1
    /\ em' = EmIdle
    /\ sd' = IF em.caller = "shutdown" THEN [sd EXCEPT !.pc = "resume"] ELSE sd
    /\ last' = [op |-> "emergencyClose", id |-> 0, ret |-> "void", arg |-> em.snapshot]
    /\ emitted' = <<>>
    /\ UNCHANGED <<heap, positions, monitoringTasks, timers, checks, sells, listeners,
                   exited, now>>

(* shutdown(false): no await, the call runs to its end. *)
ShutdownPlain ==
    /\ sd.pc = "idle" /\ em.pc = "idle"
    /\ ShutdownFinish(FALSE)
    /\ emitted' = <<>>
    /\ UNCHANGED <<heap, checks, sells, exited, em, now>>

(* shutdown(true): the call suspends at await emergencyCloseAllPositions(). *)
ShutdownForce ==
    /\ sd.pc = "idle" /\ em.pc = "idle"
    /\ IF getActivePositions = <<>>
       THEN /\ sd' = [pc |-> "resume", force |-> TRUE]
            /\ em' = em
       ELSE /\ sd' = [pc |-> "await", force |-> TRUE]
            /\ em' = [pc |-> "fetch", queue |-> getActivePositions,
                      caller |-> "shutdown", snapshot |-> getActivePositions]
    /\ last' = Step("shutdownStarted", 0, "pending")
    /\ emitted' = <<>>
    /\ UNCHANGED <<heap, positions, monitoringTasks, timers, checks, sells, listeners,
                   exited, now>>

(* shutdown(true) after its await. *)
ShutdownResume ==
    /\ sd.pc = "resume"
    /\ ShutdownFinish(sd.force)
    /\ emitted' = <<>>
    /\ UNCHANGED <<heap, checks, sells, exited, em, now>>

-----------------------------------------------------------------------------
(* The position manager with its execution layer. *)

InitPM ==
    /\ heap = <<>>
    /\ positions = <<>>
    /\ monitoringTasks = [k \in {} |-> 0]
    /\ timers = {}
    /\ checks = EmptyBag
    /\ sells = EmptyBag
    /\ listeners = TRUE
    /\ exited = <<>>
    /\ em = EmIdle
    /\ sd = SdIdle
    /\ now = 0
    /\ last = Step("init", 0, "void")
    /\ emitted = <<>>
    /\ steps = 0

(* The rate limiter before any call, with the default configuration. *)
InitRL ==
    /\ rlConfig = [requestsPerSecond |-> 20, retryDelay |-> 2000, maxRetries |-> 5]
    /\ requestTimes = <<>>
    /\ callers = <<>>
    /\ clock = 0
    /\ started = <<>>

(* No executeRPCCall call has been made. *)
ExIdle ==
    [pc |-> "idle", attempt |-> 0, wake |-> 0, invoked |-> 0, sleeps |-> <<>>,
     outcomes |-> <<>>, result |-> "undefined",
     error |-> [name |-> "null", message |-> <<>>,
                status |-> Undefined, responseStatus |-> Undefined]]

InitEx == ex = ExIdle

(* The PriorityFeeManager as the trading service constructs it. *)
InitFee ==
    /\ feeConfig = [enableDynamicFee |-> TRUE, enableFixedFee |-> TRUE,
                    fixedFee |-> 15000, extraFeePercentage |-> 10,
                    hardCap |-> 100000]
    /\ feeResult = [fee |-> Undefined]

BatchIdle ==
    [pc |-> "idle", addresses |-> {}, pending |-> {}, results |-> <<>>,
     decoded |-> <<>>, outcomes |-> <<>>]

(* No tick-driven Position exists. *)
InitTicks ==
    /\ pos = [isActive |-> FALSE]
    /\ ticks = <<>>
    /\ tclock = 0
    /\ tconfig = [takeProfitPercentage |-> Undefined, stopLossPercentage |-> Undefined,
                  maxHoldTime |-> Undefined, trailingStopLoss |-> Undefined]
    /\ pnlCall = [called |-> FALSE]

(* No bonding-curve account has been looked at. *)
InitCurve ==
    /\ chain = <<>>
    /\ batch = BatchIdle

Init == InitPM /\ InitRL /\ InitEx /\ InitFee /\ InitTicks /\ InitCurve

(* One step of the bounded exploration; the rate limiter is not involved. *)
Budget ==
    /\ steps < MaxSteps
    /\ steps' = steps + 1
    /\ UNCHANGED <<rlVars, exVars, feeVars, tickVars, curveVars>>

Next ==
    \/ \E token \in Tokens, entryPrice \in EntryPrices, config \in PositionConfigs :
           CreatePosition(token, entryPrice, config) /\ Budget
    \/ \E h \in timers : TickStop(h) /\ Budget
    \/ \E h \in timers : TickFetch(h) /\ Budget
    \/ \E c \in BagToSet(checks), outcome \in MonitorOutcomes :
           CheckSkip(c, outcome) /\ Budget
    \/ \E c \in BagToSet(checks), outcome \in MonitorOutcomes :
           CheckExit(c, outcome) /\ Budget
    \/ \E c \in BagToSet(checks), outcome \in MonitorOutcomes :
           CheckUpdate(c, outcome) /\ Budget
    \/ \E s \in BagToSet(sells), price \in SellPrices : SellSucceeds(s, price) /\ Budget
    \/ \E s \in BagToSet(sells) : SellFails(s) /\ Budget
    \/ EmergencyNone /\ Budget
    \/ EmergencyStart /\ Budget
    \/ \E outcome \in MonitorOutcomes : EmergencyEmit(outcome) /\ Budget
    \/ EmergencyNext /\ Budget
    \/ EmergencyReturn /\ Budget
    \/ ShutdownPlain /\ Budget
    \/ ShutdownForce /\ Budget
    \/ ShutdownResume /\ Budget

Spec == Init /\ [][Next]_vars

-----------------------------------------------------------------------------
(* RPCRateLimiter.waitForRateLimit. *)

RateLimits == {1, 2}
ClockSteps == {500, 1000}

RECURSIVE SeqMin(_)
SeqMin(q) ==
    IF Len(q) = 1 THEN q[1]
    ELSE LET m == SeqMin(Tail(q)) IN IF q[1] < m THEN q[1] ELSE m

(* A filter that drops every request older than half the window. *)
CleanOld_HalfWindow(times, t) == SelectSeq(times, LAMBDA time : 2 * (t - time) < WindowMs)

(* requestTimes.filter(time => now - time < 1000) *)
CleanOld(times, t) == SelectSeq(times, LAMBDA time : t - time < WindowMs)

(* A waitForRateLimit that sleeps only when the window holds more than the *)
(* limit.                                                                  *)
WaitTime_OffByOne(times, t) ==
    LET kept == CleanOld(times, t)
    IN  IF Len(kept) > rlConfig.requestsPerSecond
        THEN LET waitTime == WindowMs - (t - SeqMin(kept))
             IN  IF waitTime > 0 THEN waitTime ELSE 0
        ELSE 0

(* The sleep waitForRateLimit decides on at time t; 0 when it does not sleep. *)
WaitTime(times, t) ==
    LET kept == CleanOld(times, t)
    IN  IF Len(kept) >= rlConfig.requestsPerSecond
        THEN LET waitTime == WindowMs - (t - SeqMin(kept))
             IN  IF waitTime > 0 THEN waitTime ELSE 0
        ELSE 0

(* A new call of waitForRateLimit that does not sleep: the window is       *)
(* cleaned and the request is recorded.                                    *)
EnterPass ==
    /\ Len(callers) < MaxCallers
    /\ WaitTime(requestTimes, clock) = 0
    /\ requestTimes' = Append(CleanOld(requestTimes, clock), clock)
    /\ started' = Append(started, clock)
    /\ callers' = Append(callers,
           [pc |-> "returned", wake |-> 0, at |-> clock, start |-> clock])
    /\ UNCHANGED <<rlConfig, clock>>

(* A new call of waitForRateLimit that finds the window full: the window   *)
(* is cleaned and the call suspends at its sleep.                          *)
EnterSleep ==
    /\ Len(callers) < MaxCallers
    /\ WaitTime(requestTimes, clock) > 0
    /\ requestTimes' = CleanOld(requestTimes, clock)
    /\ callers' = Append(callers,
           [pc |-> "sleeping", wake |-> clock + WaitTime(requestTimes, clock),
            at |-> clock, start |-> Undefined])
    /\ UNCHANGED <<rlConfig, clock, started>>

(* The sleep of call i is over: the request is recorded without looking at *)
(* the window again.                                                       *)
Wake(i) ==
    /\ callers[i].pc = "sleeping"
    /\ clock >= callers[i].wake
    /\ requestTimes' = Append(requestTimes, clock)
    /\ started' = Append(started, clock)
    /\ callers' = [callers EXCEPT ![i].pc = "returned", ![i].start = clock]
    /\ UNCHANGED <<rlConfig, clock>>

AdvanceClock(d) ==
    /\ clock + d <= MaxClock
    /\ clock' = clock + d
    /\ UNCHANGED <<rlConfig, requestTimes, callers, started>>

InitLimiter ==
    /\ InitPM /\ InitEx /\ InitFee /\ InitTicks /\ InitCurve
    /\ rlConfig \in {[requestsPerSecond |-> n, retryDelay |-> 2000, maxRetries |-> 5] :
                         n \in RateLimits}
    /\ requestTimes = <<>>
    /\ callers = <<>>
    /\ clock = 0
    /\ started = <<>>

NextLimiter ==
    \/ EnterPass /\ UNCHANGED <<pmVars, exVars, feeVars, tickVars, curveVars>>
    \/ EnterSleep /\ UNCHANGED <<pmVars, exVars, feeVars, tickVars, curveVars>>
    \/ \E i \in DOMAIN callers : Wake(i) /\ UNCHANGED <<pmVars, exVars, feeVars, tickVars, curveVars>>
    \/ \E d \in ClockSteps : AdvanceClock(d) /\ UNCHANGED <<pmVars, exVars, feeVars, tickVars, curveVars>>

SpecLimiter == InitLimiter /\ [][NextLimiter]_vars

-----------------------------------------------------------------------------
(* Properties of the position monitor (checked under Spec). *)

(* The number of checks of Position object o suspended at their fetch. *)
InFlight(o) ==
    LET S == {c \in BagToSet(checks) : c.pos = o}
    IN  IF S = {} THEN 0 ELSE CopiesIn(CHOOSE c \in S : TRUE, checks)

(* The interval timers still scheduled whose callback checks position id. *)
TimersOf(positionId) == {h \in timers : heap[h].mint = positionId}

Registered(positionId) == MapHas(positions, positionId)

(* C1: once a periodic check has emitted positionExit for a position, the  *)
(* task map holds no timer for it and no later periodic check emits a      *)
(* second positionExit for the same position.                              *)
C1_NoSecondExit ==
    [][ /\ last'.op = "checkExit" => last'.id \notin DOMAIN monitoringTasks'
        /\ \A o \in DOMAIN heap :
              exited[o] => ~(last'.op = "checkExit" /\ emitted'[1].position = o)
      ]_vars

(* C2: a position stays Active and polled until closePosition is called    *)
(* for it: when the sell that followed a positionExit has failed and no    *)
(* other sell is pending for it, the still-active registered position has  *)
(* a scheduled periodic check that will evaluate it again.                 *)
C2_ActiveStaysPolled ==
    (/\ last.op = "sellFailed"
     /\ listeners
     /\ Registered(last.id)
     /\ \A s \in BagToSet(sells) : s.token # last.id)
        => (heap[MapGet(positions, last.id)].isActive
                => (TimersOf(last.id) # {} \/ InFlight(MapGet(positions, last.id)) > 0))

(* C3: for any single position at most one periodic check is in flight.    *)
C3_OneCheckInFlight ==
    \A o \in DOMAIN heap : InFlight(o) <= 1

(* C4: Closed is terminal.  A Position starts Active, becomes Closed only  *)
(* in a step that calls close, and a Position whose isActive is false      *)
(* never becomes active again.                                             *)
C4_ClosedIsTerminal ==
    [][ /\ \A o \in DOMAIN heap' \ DOMAIN heap : heap'[o].isActive
        /\ \A o \in DOMAIN heap :
              /\ ~heap[o].isActive => ~heap'[o].isActive
              /\ (heap[o].isActive /\ ~heap'[o].isActive) => last'.op = "sellClosed"
      ]_vars

(* C4 witness: a check that was suspended when its position was closed has *)
(* evaluated the closed position, and the position is still closed.        *)
C4_Witness ==
    /\ last.op = "checkUpdate"
    /\ ~heap[emitted[1].position].isActive

(* C5: once isActive is false, exitPrice, exitReason, exitTime and         *)
(* transactionSignature keep the values of the first close.                *)
C5_CloseIsFinal ==
    [][ \A o \in DOMAIN heap :
          ~heap[o].isActive =>
              /\ heap'[o].exitPrice = heap[o].exitPrice
              /\ heap'[o].exitReason = heap[o].exitReason
              /\ heap'[o].exitTime = heap[o].exitTime
              /\ heap'[o].transactionSignature = heap[o].transactionSignature
      ]_vars

(* C6: a periodic check whose price fetch failed emits no signal, changes  *)
(* no position, starts no sell and leaves every scheduled check scheduled. *)
C6_FetchFailureSkips ==
    [][ (/\ last'.op \in {"checkSkipped", "checkExit", "checkUpdate"}
         /\ last'.arg[1] # "")
            => /\ last'.op = "checkSkipped"
               /\ emitted' = <<>>
               /\ heap' = heap
               /\ positions' = positions
               /\ sells' = sells
               /\ timers' = timers
               /\ monitoringTasks' = monitoringTasks
      ]_vars

(* C6 witness: a check of an active position has just skipped its cycle    *)
(* after a failed fetch and the position's timer is still scheduled.       *)
C6_Witness ==
    /\ last.op = "checkSkipped"
    /\ last.arg[1] = "InvalidReserves"
    /\ Registered(last.id)
    /\ heap[MapGet(positions, last.id)].isActive
    /\ last.id \in DOMAIN monitoringTasks
    /\ monitoringTasks[last.id] \in timers

(* C7: when emergencyCloseAllPositions returns, every position that was    *)
(* active when it was called is inactive.                                  *)
C7_EmergencyClosesAll ==
    last.op = "emergencyClose"
        => \A i \in DOMAIN last.arg : ~heap[last.arg[i]].isActive

(* C8: when shutdown returns, no periodic check remains scheduled and the  *)
(* listeners are detached.                                                 *)
C8_ShutdownCancelsAll ==
    last.op = "shutdown" => (timers = {} /\ ~listeners)

(* C9: closePosition returns false and changes nothing for an unknown      *)
(* token; for a registered one it returns true, leaves the position Closed *)
(* with the given price and reason and no check scheduled for it.          *)
C9_ClosePosition ==
    [][ last'.op = "sellClosed" =>
          IF ~Registered(last'.id)
          THEN /\ last'.ret = "false"
               /\ heap' = heap /\ timers' = timers
               /\ monitoringTasks' = monitoringTasks
          ELSE /\ last'.ret = "true"
               /\ ~heap'[MapGet(positions, last'.id)].isActive
               /\ heap'[MapGet(positions, last'.id)].exitPrice = last'.arg[1]
               /\ heap'[MapGet(positions, last'.id)].exitReason = last'.arg[2]
               /\ \A h \in timers' : heap'[h].mint # last'.id
      ]_vars

-----------------------------------------------------------------------------
(* Properties of the rate limiter (checked under SpecLimiter). *)

(* The requests recorded in the one-second window that ends at start i. *)
StartsInWindow(i) ==
    {j \in DOMAIN started :
        started[i] - started[j] >= 0 /\ started[i] - started[j] < WindowMs}

(* C10: no more than requestsPerSecond attempts start within any rolling   *)
(* one-second window.                                                      *)
C10_WindowRespected ==
    \A i \in DOMAIN started :
        Cardinality(StartsInWindow(i)) <= rlConfig.requestsPerSecond

(* C11: with requestsPerSecond = N and N+1 calls made at the same time on  *)
(* an empty window, the first N start immediately and the (N+1)-th does    *)
(* not start until at least one second after the first.                    *)
C11_BurstDelaysExtraCall ==
    LET N == rlConfig.requestsPerSecond
    IN  (/\ Len(callers) > N
         /\ \A i \in 1..(N + 1) : callers[i].at = callers[1].at)
            => /\ \A i \in 1..N : callers[i].start = callers[i].at
               /\ callers[N + 1].start # Undefined
                      => callers[N + 1].start >= callers[1].start + WindowMs

(* C11 witness: requestsPerSecond = 2, three calls at time 0, and the      *)
(* third has started, one second after the first.                          *)
C11_Witness ==
    /\ rlConfig.requestsPerSecond = 2
    /\ Len(callers) = 3
    /\ \A i \in 1..3 : callers[i].at = 0
    /\ callers[3].start = WindowMs

-----------------------------------------------------------------------------
(* RPCRateLimiter.executeRPCCall: one call, with the rate limiter's window. *)

RetryDelays == {500, 2000}
RetryLimits == {0, 1, 2, 4}
CallDurations == {0, 300}
RpcResults == {"result1", "result2"}

(* The errors an rpcCall rejects with.  message is the list of the words   *)
(* of the message text, so that includes() is membership of a word.        *)
RpcErrors ==
    { [name |-> "Error", message |-> <<"429", "Too Many Requests">>,
       status |-> Undefined, responseStatus |-> Undefined],
      [name |-> "Error", message |-> <<"Too Many Requests">>,
       status |-> Undefined, responseStatus |-> Undefined],
      [name |-> "Error", message |-> <<"request failed">>,
       status |-> 429, responseStatus |-> Undefined],
      [name |-> "Error", message |-> <<"request failed">>,
       status |-> Undefined, responseStatus |-> 429],
      [name |-> "Error", message |-> <<"Account", "not", "found">>,
       status |-> 404, responseStatus |-> Undefined],
      [name |-> "TypeError", message |-> <<"fetch", "failed">>,
       status |-> Undefined, responseStatus |-> 500] }

(* What a resolved rpcCall leaves in the history of the call. *)
Resolved(result) ==
    [name |-> "ok", message |-> <<result>>,
     status |-> Undefined, responseStatus |-> Undefined]

(* String.prototype.includes on a text given as its list of words. *)
includes(text, word) == \E i \in DOMAIN text : text[i] = word

(* Error.prototype.toString(): the name, then the message. *)
toString(error) == <<error.name>> \o error.message

is429Error(error) ==
    \/ includes(error.message, "429")
    \/ error.responseStatus = 429
    \/ error.status = 429
    \/ includes(toString(error), "Too Many Requests")

RECURSIVE Pow2(_)
Pow2(n) == IF n = 0 THEN 1 ELSE 2 * Pow2(n - 1)

(* A backoff that grows linearly with the attempt number. *)
backoffDelay_Linear(attempt) == rlConfig.retryDelay * attempt

(* retryDelay * Math.pow(2, attempt - 1) *)
backoffDelay(attempt) == rlConfig.retryDelay * Pow2(attempt - 1)

(* executeRPCCall is called: the loop starts with attempt 1. *)
ExStart ==
    /\ ex.pc = "idle"
    /\ ex' = [ex EXCEPT !.pc = "loop", !.attempt = 1]
    /\ UNCHANGED rlVars

(* Loop head, waitForRateLimit does not sleep: the request is recorded and *)
(* rpcCall is invoked.                                                     *)
ExWaitPass ==
    /\ ex.pc = "loop"
    /\ ex.attempt <= rlConfig.maxRetries
    /\ WaitTime(requestTimes, clock) = 0
    /\ requestTimes' = Append(CleanOld(requestTimes, clock), clock)
    /\ started' = Append(started, clock)
    /\ ex' = [ex EXCEPT !.pc = "calling", !.invoked = @ + 1]
    /\ UNCHANGED <<rlConfig, callers, clock>>

(* Loop head, waitForRateLimit finds the window full and sleeps. *)
ExWaitSleep ==
    /\ ex.pc = "loop"
    /\ ex.attempt <= rlConfig.maxRetries
    /\ WaitTime(requestTimes, clock) > 0
    /\ requestTimes' = CleanOld(requestTimes, clock)
    /\ ex' = [ex EXCEPT !.pc = "waiting",
                        !.wake = clock + WaitTime(requestTimes, clock)]
    /\ UNCHANGED <<rlConfig, callers, clock, started>>

(* The sleep of waitForRateLimit is over: the request is recorded and      *)
(* rpcCall is invoked.                                                     *)
ExWaitWake ==
    /\ ex.pc = "waiting"
    /\ clock' = ex.wake
    /\ requestTimes' = Append(requestTimes, clock')
    /\ started' = Append(started, clock')
    /\ ex' = [ex EXCEPT !.pc = "calling", !.invoked = @ + 1]
    /\ UNCHANGED <<rlConfig, callers>>

(* rpcCall resolves: executeRPCCall returns its result. *)
ExCallOk(result, d) ==
    /\ ex.pc = "calling"
    /\ clock' = clock + d
    /\ ex' = [ex EXCEPT !.pc = "returned", !.result = result,
                        !.outcomes = Append(@, Resolved(result))]
    /\ UNCHANGED <<rlConfig, requestTimes, callers, started>>

(* An error that is429Error does not recognise is retried after a backoff. *)
ExCallFailOther_Retry(error, d) ==
    /\ ex.pc = "calling"
    /\ ~is429Error(error)
    /\ clock' = clock + d
    /\ ex' = [ex EXCEPT !.pc = IF ex.attempt < rlConfig.maxRetries
                               THEN "backoff" ELSE "thrown",
                        !.error = error,
                        !.wake = clock' + backoffDelay(ex.attempt),
                        !.sleeps = IF ex.attempt < rlConfig.maxRetries
                                   THEN Append(@, backoffDelay(ex.attempt)) ELSE @,
                        !.outcomes = Append(@, error)]
    /\ UNCHANGED <<rlConfig, requestTimes, callers, started>>

(* rpcCall rejects with an error that is429Error does not recognise: the   *)
(* error is rethrown.                                                      *)
ExCallFailOther(error, d) ==
    /\ ex.pc = "calling"
    /\ ~is429Error(error)
    /\ clock' = clock + d
    /\ ex' = [ex EXCEPT !.pc = "thrown", !.error = error,
                        !.outcomes = Append(@, error)]
    /\ UNCHANGED <<rlConfig, requestTimes, callers, started>>

(* rpcCall rejects with a 429 error before the last attempt: backoff sleep. *)
ExCallFail429Retry(error, d) ==
    /\ ex.pc = "calling"
    /\ is429Error(error)
    /\ ex.attempt < rlConfig.maxRetries
    /\ clock' = clock + d
    /\ ex' = [ex EXCEPT !.pc = "backoff", !.error = error,
                        !.wake = clock' + backoffDelay(ex.attempt),
                        !.sleeps = Append(@, backoffDelay(ex.attempt)),
                        !.outcomes = Append(@, error)]
    /\ UNCHANGED <<rlConfig, requestTimes, callers, started>>

(* rpcCall rejects with a 429 error on the last attempt: the loop ends and *)
(* lastError is thrown.                                                    *)
ExCallFail429Last(error, d) ==
    /\ ex.pc = "calling"
    /\ is429Error(error)
    /\ ~(ex.attempt < rlConfig.maxRetries)
    /\ clock' = clock + d
    /\ ex' = [ex EXCEPT !.pc = "thrown", !.error = error,
                        !.outcomes = Append(@, error)]
    /\ UNCHANGED <<rlConfig, requestTimes, callers, started>>

(* The backoff sleep is over: continue with the next attempt. *)
ExBackoffWake ==
    /\ ex.pc = "backoff"
    /\ clock' = ex.wake
    /\ ex' = [ex EXCEPT !.pc = "loop", !.attempt = @ + 1]
    /\ UNCHANGED <<rlConfig, requestTimes, callers, started>>

(* The loop condition attempt <= maxRetries is false: the loop ends and    *)
(* lastError is thrown.                                                    *)
ExLoopEnd ==
    /\ ex.pc = "loop"
    /\ ~(ex.attempt <= rlConfig.maxRetries)
    /\ ex' = [ex EXCEPT !.pc = "thrown"]
    /\ UNCHANGED rlVars

InitRetry ==
    /\ InitPM /\ InitEx /\ InitFee /\ InitTicks /\ InitCurve
    /\ rlConfig \in {[requestsPerSecond |-> n, retryDelay |-> r, maxRetries |-> m] :
                         n \in RateLimits, r \in RetryDelays, m \in RetryLimits}
    /\ requestTimes = <<>>
    /\ callers = <<>>
    /\ clock = 0
    /\ started = <<>>

NextRetry ==
    \/ ExStart /\ UNCHANGED <<pmVars, feeVars, tickVars, curveVars>>
    \/ ExWaitPass /\ UNCHANGED <<pmVars, feeVars, tickVars, curveVars>>
    \/ ExWaitSleep /\ UNCHANGED <<pmVars, feeVars, tickVars, curveVars>>
    \/ ExWaitWake /\ UNCHANGED <<pmVars, feeVars, tickVars, curveVars>>
    \/ \E result \in RpcResults, d \in CallDurations :
           ExCallOk(result, d) /\ UNCHANGED <<pmVars, feeVars, tickVars, curveVars>>
    \/ \E error \in RpcErrors, d \in CallDurations :
           ExCallFailOther(error, d) /\ UNCHANGED <<pmVars, feeVars, tickVars, curveVars>>
    \/ \E error \in RpcErrors, d \in CallDurations :
           ExCallFail429Retry(error, d) /\ UNCHANGED <<pmVars, feeVars, tickVars, curveVars>>
    \/ \E error \in RpcErrors, d \in CallDurations :
           ExCallFail429Last(error, d) /\ UNCHANGED <<pmVars, feeVars, tickVars, curveVars>>
    \/ ExBackoffWake /\ UNCHANGED <<pmVars, feeVars, tickVars, curveVars>>
    \/ ExLoopEnd /\ UNCHANGED <<pmVars, feeVars, tickVars, curveVars>>

SpecRetry == InitRetry /\ [][NextRetry]_vars

(* Properties of executeRPCCall (checked under SpecRetry). *)

(* The outcome of the rpcCall invocation that has just completed. *)
LastOutcome(call) == call.outcomes[Len(call.outcomes)]

(* C12: when rpcCall fails with an error that is not a rate-limit signal,  *)
(* executeRPCCall throws that same error at once: rpcCall is not invoked   *)
(* again and no backoff sleep happens, whatever the attempt number.        *)
C12_OtherErrorPropagates ==
    [][ /\ (/\ ex.pc = "calling"
            /\ ex'.pc # "calling"
            /\ LastOutcome(ex').name # "ok"
            /\ ~is429Error(LastOutcome(ex')))
               => /\ ex'.pc = "thrown"
                  /\ ex'.error = LastOutcome(ex')
                  /\ ex'.invoked = ex.invoked
                  /\ ex'.sleeps = ex.sleeps
        /\ ex.pc = "thrown" => ex' = ex
      ]_vars

(* C12 witness: the second attempt, made after a backoff, failed with an   *)
(* error that is no rate-limit signal and the call has thrown it.          *)
C12_Witness ==
    /\ ex.pc = "thrown"
    /\ ex.attempt = 2
    /\ rlConfig.maxRetries = 4
    /\ ~is429Error(ex.error)

-----------------------------------------------------------------------------
(* One Position driven directly by a sequence of shouldExit price ticks. *)

MaxTicks == 3
MaxTickClock == 20

TickPrices == {75, 110, 130, 151}
TickClockSteps == {10}

(* Configurations: the usual thresholds; a take profit below the stop      *)
(* loss; all four options; a trailing stop only.                           *)
TickConfigs ==
    { [takeProfitPercentage |-> 50, stopLossPercentage |-> 20,
       maxHoldTime |-> Undefined, trailingStopLoss |-> Undefined],
      [takeProfitPercentage |-> -30, stopLossPercentage |-> 20,
       maxHoldTime |-> 10, trailingStopLoss |-> Undefined],
      [takeProfitPercentage |-> 50, stopLossPercentage |-> 20,
       maxHoldTime |-> 10, trailingStopLoss |-> 10],
      [takeProfitPercentage |-> Undefined, stopLossPercentage |-> Undefined,
       maxHoldTime |-> Undefined, trailingStopLoss |-> 10] }

(* position.shouldExit(currentPrice), as checkPositionExit calls it, with  *)
(* the PnL it reports for that price.                                      *)
PriceTick(currentPrice) ==
    /\ Len(ticks) < MaxTicks
    /\ pos' = shouldExitState(pos, currentPrice)
    /\ ticks' = Append(ticks,
           [price |-> currentPrice, time |-> tclock,
            before |-> pos, after |-> pos',
            result |-> shouldExit(pos, currentPrice, tclock),
            pnl |-> calculatePnL(pos', currentPrice)])
    /\ UNCHANGED <<tclock, tconfig, pnlCall>>

(* position.closePosition(exitPrice, MANUAL) *)
PriceClose(exitPrice) ==
    /\ pos.isActive
    /\ pos' = Position_closePosition(pos, exitPrice, "manual", NoSignature, tclock)
    /\ UNCHANGED <<ticks, tclock, tconfig, pnlCall>>

TickTime(d) ==
    /\ tclock + d <= MaxTickClock
    /\ tclock' = tclock + d
    /\ UNCHANGED <<pos, ticks, tconfig, pnlCall>>

(* position.calculatePnL(currentPrice), with or without the argument *)
PricePnL(currentPrice) ==
    /\ pnlCall' = [called |-> TRUE, position |-> pos, price |-> currentPrice,
                   result |-> calculatePnL(pos, currentPrice)]
    /\ UNCHANGED <<pos, ticks, tclock, tconfig>>

InitPosition ==
    /\ InitPM /\ InitRL /\ InitEx /\ InitFee /\ InitCurve
    /\ pnlCall = [called |-> FALSE]
    /\ tconfig \in TickConfigs
    /\ pos = createFromBuyResult(1, 100, 1, 100, tconfig, "buySig", 0)
    /\ ticks = <<>>
    /\ tclock = 0

NextPosition ==
    \/ \E currentPrice \in TickPrices :
           PriceTick(currentPrice) /\ UNCHANGED <<pmVars, rlVars, exVars, feeVars, curveVars>>
    \/ \E exitPrice \in TickPrices :
           PriceClose(exitPrice) /\ UNCHANGED <<pmVars, rlVars, exVars, feeVars, curveVars>>
    \/ \E d \in TickClockSteps :
           TickTime(d) /\ UNCHANGED <<pmVars, rlVars, exVars, feeVars, curveVars>>

SpecPosition == InitPosition /\ [][NextPosition]_vars

(* The same Position asked for its PnL, before and after a close. *)
NextPnL ==
    \/ \E currentPrice \in TickPrices \cup {Undefined} :
           PricePnL(currentPrice) /\ UNCHANGED <<pmVars, rlVars, exVars, feeVars, curveVars>>
    \/ \E exitPrice \in TickPrices :
           PriceClose(exitPrice) /\ UNCHANGED <<pmVars, rlVars, exVars, feeVars, curveVars>>
    \/ \E d \in TickClockSteps :
           TickTime(d) /\ UNCHANGED <<pmVars, rlVars, exVars, feeVars, curveVars>>

SpecPnL == InitPosition /\ [][NextPnL]_vars

(* Properties of Position.shouldExit (checked under SpecPosition). *)

Max(a, b) == IF a >= b THEN a ELSE b

(* C14: for an active position with take-profit and stop-loss thresholds   *)
(* both configured, a price that is at or above the take-profit price and  *)
(* at or below the stop-loss price reports an exit with reason TakeProfit. *)
C14_TakeProfitFirst ==
    \A k \in DOMAIN ticks :
        LET e == ticks[k]
        IN  (/\ e.before.isActive
             /\ e.before.takeProfitPrice # Undefined
             /\ e.before.stopLossPrice # Undefined
             /\ e.price >= e.before.takeProfitPrice
             /\ e.price <= e.before.stopLossPrice)
                => /\ e.result.shouldExit
                   /\ e.result.reason = "take_profit"

(* C14 witness: a tick at price 75 on an active position whose take-profit *)
(* price is 70 and whose stop-loss price is 80.                            *)
C14_Witness ==
    \E k \in DOMAIN ticks :
        /\ ticks[k].before.isActive
        /\ ticks[k].before.takeProfitPrice = 70
        /\ ticks[k].before.stopLossPrice = 80
        /\ ticks[k].price = 75

(* C15: highWaterMark starts at entryPrice, and after each tick on an      *)
(* active position it is the maximum of its previous value and the tick's  *)
(* price, so it never decreases while the position is active.              *)
C15_HighWaterMark ==
    /\ (ticks = <<>> /\ pos.isActive) => pos.highWaterMark = pos.entryPrice
    /\ \A k \in DOMAIN ticks :
           ticks[k].before.isActive
               => ticks[k].after.highWaterMark
                      = Max(ticks[k].before.highWaterMark, ticks[k].price)

(* C15 witness: after a rise above the entry price, a tick below the high  *)
(* water mark has been evaluated on the active position.                   *)
C15_Witness ==
    \E k \in DOMAIN ticks :
        /\ ticks[k].before.isActive
        /\ ticks[k].before.highWaterMark > ticks[k].before.entryPrice
        /\ ticks[k].price < ticks[k].before.highWaterMark
        /\ ticks[k].after.highWaterMark = ticks[k].before.highWaterMark

(* The trailing stop a tick at currentPrice asks for, in a position        *)
(* configured with the trailing percentage of config.                      *)
TrailingStopFor(config, currentPrice) ==
    (currentPrice * (100 - config.trailingStopLoss)) \div 100

(* C17: for a position created with a trailing percentage, a tick above    *)
(* the high water mark sets trailingStopPrice to price * (1 - trailing%)   *)
(* when that exceeds the existing trailing stop, and a tick at or below    *)
(* the trailing stop, with no take profit or stop loss hit, reports an     *)
(* exit with urgency high.                                                 *)
C17_TrailingStop ==
    \A k \in DOMAIN ticks :
        LET e == ticks[k]
            new == TrailingStopFor(tconfig, e.price)
            old == e.before.trailingStopPrice
        IN  /\ (/\ tconfig.trailingStopLoss # Undefined
                /\ e.before.isActive
                /\ e.price > e.before.highWaterMark)
                   => e.after.trailingStopPrice
                          = (IF old # Undefined /\ old >= new THEN old ELSE new)
            /\ (/\ tconfig.trailingStopLoss # Undefined
                /\ e.before.isActive
                /\ e.after.trailingStopPrice # Undefined
                /\ e.price <= e.after.trailingStopPrice)
                   => e.result.shouldExit /\ e.result.urgency = "high"

(* The configuration and the prices of the end-to-end scenario. *)
ScenarioConfig ==
    [takeProfitPercentage |-> 50, stopLossPercentage |-> 20,
     maxHoldTime |-> Undefined, trailingStopLoss |-> Undefined]

ScenarioPrices == <<110, 130, 151>>

(* The ticks made so far are the first ticks of the scenario. *)
InScenario ==
    /\ tconfig = ScenarioConfig
    /\ Len(ticks) <= Len(ScenarioPrices)
    /\ \A k \in DOMAIN ticks :
           ticks[k].price = ScenarioPrices[k] /\ ticks[k].before.isActive

(* C18: entry price 1.0, take profit 50%, stop loss 20%, prices 1.1, 1.3,  *)
(* 1.51: no exit on the first two ticks, and on the third an exit with     *)
(* reason TakeProfit and a reported ROI of 51%.                            *)
C18_Scenario ==
    InScenario =>
        \A k \in DOMAIN ticks :
            IF k < 3
            THEN ~ticks[k].result.shouldExit
            ELSE /\ ticks[k].result.shouldExit
                 /\ ticks[k].result.reason = "take_profit"
                 /\ ticks[k].pnl.roi = 51

(* C18 witness: the three ticks of the scenario have been evaluated. *)
C18_Witness ==
    /\ InScenario
    /\ Len(ticks) = 3
    /\ pos.entryPrice = 100

-----------------------------------------------------------------------------
(* PriorityFeeManager with its two plugins.  Fees are micro-lamports,      *)
(* extraFeePercentage is an integer in percent.                            *)

DynamicZeroFee == 100000
EmergencyFee == 200000
FallbackFee == 20000

(* What getRecentPrioritizationFees gives: an error, or the fee samples. *)
FeeSamples ==
    { [error |-> TRUE, fees |-> <<>>],
      [error |-> FALSE, fees |-> <<>>],
      [error |-> FALSE, fees |-> <<0>>],
      [error |-> FALSE, fees |-> <<5000>>],
      [error |-> FALSE, fees |-> <<0, 0>>],
      [error |-> FALSE, fees |-> <<300000, 5000>>],
      [error |-> FALSE, fees |-> <<5000, 4000, 0, 2000, 1000>>] }

(* The accounts argument: absent, a list of PublicKeys, or a list holding  *)
(* a value that has no toString.                                           *)
FeeAccounts == {"undefined", "valid", "invalid"}

FeeConfigs ==
    [ enableDynamicFee : BOOLEAN, enableFixedFee : BOOLEAN,
      fixedFee : {0, 15000}, extraFeePercentage : {0, 10},
      hardCap : {10000, 100000, 1000000} ]

(* Array.prototype.sort((a, b) => a - b), by insertion. *)
RECURSIVE SortAscending(_)
SortAscending(q) ==
    IF Len(q) <= 1 THEN q
    ELSE LET rest == SortAscending(Tail(q))
             lower == SelectSeq(rest, LAMBDA x : x <= Head(q))
             upper == SelectSeq(rest, LAMBDA x : x > Head(q))
         IN  lower \o <<Head(q)>> \o upper

(* A getPriorityFee that does not sort the samples. *)
DynamicPriorityFee_getPriorityFee_NoSort(samples) ==
    IF samples.error THEN Null
    ELSE IF Len(samples.fees) = 0 THEN Null
    ELSE LET fees == samples.fees
             percentileIndex == (Len(fees) * 70) \div 100
         IN  IF Truthy(fees[percentileIndex + 1]) THEN fees[percentileIndex + 1] ELSE 0

(* DynamicPriorityFee.getPriorityFee *)
DynamicPriorityFee_getPriorityFee(samples) ==
    IF samples.error THEN Null
    ELSE IF Len(samples.fees) = 0 THEN Null
    ELSE LET fees == SortAscending(samples.fees)
             percentileIndex == (Len(fees) * 70) \div 100
         IN  IF Truthy(fees[percentileIndex + 1]) THEN fees[percentileIndex + 1] ELSE 0

(* FixedPriorityFee.getPriorityFee *)
FixedPriorityFee_getPriorityFee(fixedFee) ==
    IF fixedFee = 0 THEN Null ELSE fixedFee

(* A getBaseFee that falls back to the fixed fee when the dynamic fee is 0. *)
getBaseFee_ZeroFallsToFixed(config, dynamicFee) ==
    LET fixedFee == FixedPriorityFee_getPriorityFee(config.fixedFee)
    IN  IF config.enableDynamicFee /\ dynamicFee # Null /\ dynamicFee > 0
        THEN dynamicFee
        ELSE IF config.enableFixedFee /\ fixedFee # Null /\ Truthy(fixedFee) /\ fixedFee > 0
        THEN fixedFee
        ELSE EmergencyFee

(* A getBaseFee without the emergency constant: no fee when every tier fails. *)
getBaseFee_NoEmergency(config, dynamicFee) ==
    LET fixedFee == FixedPriorityFee_getPriorityFee(config.fixedFee)
    IN  IF config.enableDynamicFee /\ dynamicFee # Null /\ dynamicFee > 0
        THEN dynamicFee
        ELSE IF config.enableDynamicFee /\ dynamicFee = 0
        THEN DynamicZeroFee
        ELSE IF config.enableFixedFee /\ fixedFee # Null /\ Truthy(fixedFee) /\ fixedFee > 0
        THEN fixedFee
        ELSE 0

(* PriorityFeeManager.getBaseFee, given what the dynamic plugin returns. *)
getBaseFee(config, dynamicFee) ==
    LET fixedFee == FixedPriorityFee_getPriorityFee(config.fixedFee)
    IN  IF config.enableDynamicFee /\ dynamicFee # Null /\ dynamicFee > 0
        THEN dynamicFee
        ELSE IF config.enableDynamicFee /\ dynamicFee = 0
        THEN DynamicZeroFee
        ELSE IF config.enableFixedFee /\ fixedFee # Null /\ Truthy(fixedFee) /\ fixedFee > 0
        THEN fixedFee
        ELSE EmergencyFee

(* Math.min *)
Min(a, b) == IF a <= b THEN a ELSE b

(* Math.round(baseFee * (1 + extraFeePercentage)) *)
feeWithMultiplier(config, baseFee) ==
    (baseFee * (100 + config.extraFeePercentage) + 50) \div 100

(* A calculatePriorityFee that does not enforce the hard cap. *)
calculatePriorityFee_NoCap(config, samples, accounts) ==
    LET dynamicFee == DynamicPriorityFee_getPriorityFee(samples)
        baseFee == getBaseFee(config, dynamicFee)
    IN  IF accounts = "invalid"
        THEN [fee |-> FallbackFee, source |-> "fallback"]
        ELSE [fee |-> feeWithMultiplier(config, baseFee),
              source |-> IF config.enableDynamicFee THEN "dynamic" ELSE "fixed"]

(* PriorityFeeManager.calculatePriorityFee; accounts.map throws on an      *)
(* invalid accounts list, which the catch turns into the fallback fee.     *)
calculatePriorityFee(config, samples, accounts) ==
    LET dynamicFee == DynamicPriorityFee_getPriorityFee(samples)
        baseFee == getBaseFee(config, dynamicFee)
    IN  IF accounts = "invalid"
        THEN [fee |-> Min(FallbackFee, config.hardCap), source |-> "fallback"]
        ELSE [fee |-> Min(feeWithMultiplier(config, baseFee), config.hardCap),
              source |-> IF config.enableDynamicFee THEN "dynamic" ELSE "fixed"]

(* A call of calculatePriorityFee; the result is kept with the inputs and  *)
(* the base fee that went into it.                                         *)
CalculateFee(samples, accounts) ==
    /\ feeResult' =
           [fee |-> calculatePriorityFee(feeConfig, samples, accounts).fee,
            source |-> calculatePriorityFee(feeConfig, samples, accounts).source,
            config |-> feeConfig,
            accounts |-> accounts,
            samples |-> samples,
            dynamicFee |-> DynamicPriorityFee_getPriorityFee(samples),
            baseFee |-> getBaseFee(feeConfig, DynamicPriorityFee_getPriorityFee(samples))]
    /\ UNCHANGED feeConfig

(* PriorityFeeManager.updateConfig with a whole configuration. *)
UpdateFeeConfig(config) ==
    /\ feeConfig' = config
    /\ UNCHANGED feeResult

InitFeeManager ==
    /\ InitPM /\ InitRL /\ InitEx /\ InitTicks /\ InitCurve
    /\ feeConfig \in FeeConfigs
    /\ feeResult = [fee |-> Undefined]

NextFee ==
    \/ \E samples \in FeeSamples, accounts \in FeeAccounts :
           CalculateFee(samples, accounts) /\ UNCHANGED <<pmVars, rlVars, exVars, tickVars, curveVars>>
    \/ \E config \in FeeConfigs :
           UpdateFeeConfig(config) /\ UNCHANGED <<pmVars, rlVars, exVars, tickVars, curveVars>>

SpecFee == InitFeeManager /\ [][NextFee]_vars

(* Properties of the PriorityFeeManager (checked under SpecFee). *)

Calculated == feeResult.fee # Undefined

(* C19: every PriorityFeeResult has fee <= hardCap, on every path. *)
C19_FeeCapped ==
    Calculated => feeResult.fee <= feeResult.config.hardCap

(* C19 witness: the emergency constant, raised by the extra percentage,    *)
(* exceeded the hard cap and the result carries the cap.                   *)
C19_Witness ==
    /\ Calculated
    /\ feeResult.accounts # "invalid"
    /\ feeResult.baseFee = EmergencyFee
    /\ feeWithMultiplier(feeResult.config, feeResult.baseFee) > feeResult.config.hardCap
    /\ feeResult.fee = feeResult.config.hardCap

(* C20 as stated: with the dynamic plugin enabled, its value is the base   *)
(* fee when it is neither null nor 0; when it is null or 0 the base fee is *)
(* the fixed fee if that is enabled and non-zero, and the emergency        *)
(* constant only otherwise.                                                *)
C20_FallbackChain ==
    (Calculated /\ feeResult.config.enableDynamicFee) =>
        LET c == feeResult.config
            d == feeResult.dynamicFee
        IN  IF d # Null /\ d # 0 THEN feeResult.baseFee = d
            ELSE IF c.enableFixedFee /\ c.fixedFee # 0
                 THEN feeResult.baseFee = c.fixedFee
                 ELSE feeResult.baseFee = EmergencyFee

(* C20 amended: a dynamic value of 0 gives the 100000 minimum, whatever    *)
(* the fixed fee; the fixed fee is the base fee only when the dynamic      *)
(* plugin is disabled or returned null, and the emergency constant only    *)
(* when the fixed fee is then disabled or 0.                               *)
C20_FallbackChainAmended ==
    Calculated =>
        LET c == feeResult.config
            d == feeResult.dynamicFee
        IN  IF c.enableDynamicFee /\ d # Null /\ d # 0 THEN feeResult.baseFee = d
            ELSE IF c.enableDynamicFee /\ d = 0 THEN feeResult.baseFee = DynamicZeroFee
            ELSE IF c.enableFixedFee /\ c.fixedFee # 0
                 THEN feeResult.baseFee = c.fixedFee
                 ELSE feeResult.baseFee = EmergencyFee

(* C20 witness: the dynamic plugin returned 0 while a fixed fee of 15000   *)
(* was enabled, and the base fee is the 100000 minimum.                    *)
C20_Witness ==
    /\ Calculated
    /\ feeResult.config.enableDynamicFee
    /\ feeResult.config.enableFixedFee
    /\ feeResult.config.fixedFee = 15000
    /\ feeResult.dynamicFee = 0
    /\ feeResult.baseFee = DynamicZeroFee

(* The tier that supplied the base fee of the last result; "substitute"   *)
(* is the minimum that stands in for a dynamic value of 0.                 *)
SupplyingTier ==
    LET c == feeResult.config
        d == feeResult.dynamicFee
    IN  IF feeResult.accounts = "invalid" THEN "fallback"
        ELSE IF c.enableDynamicFee /\ d # Null /\ d > 0 THEN "dynamic"
        ELSE IF c.enableDynamicFee /\ d = 0 THEN "substitute"
        ELSE IF c.enableFixedFee /\ c.fixedFee > 0 THEN "fixed"
        ELSE "fallback"

(* C21: the source of a PriorityFeeResult names the tier that supplied the *)
(* base fee: dynamic only when the dynamic plugin's value was used, fixed  *)
(* when the fixed constant was used, fallback when the emergency constant  *)
(* or the error fallback was used.                                         *)
C21_SourceNamesTier ==
    (Calculated /\ SupplyingTier # "substitute") => feeResult.source = SupplyingTier

(* The number of samples below v, and the number not above v. *)
CountBelow(fees, v) == Cardinality({i \in DOMAIN fees : fees[i] < v})
CountUpTo(fees, v) == Cardinality({i \in DOMAIN fees : fees[i] <= v})

(* The 70th percentile of fees by linear interpolation between the two     *)
(* samples that bracket position 0.7 * (n - 1) of the sorted samples.      *)
Interpolated70(fees) ==
    LET sorted == SortAscending(fees)
        tenths == 7 * (Len(fees) - 1)
        lo == tenths \div 10
        frac == tenths % 10
    IN  IF frac = 0 THEN sorted[lo + 1]
        ELSE sorted[lo + 1] + (frac * (sorted[lo + 2] - sorted[lo + 1])) \div 10

(* C22 as stated: the dynamic plugin returns the 70th percentile of the    *)
(* sorted samples with linear interpolation between the bracketing         *)
(* samples; the single sample when there is one; null when there is none.  *)
C22_Percentile ==
    (Calculated /\ ~feeResult.samples.error) =>
        LET fees == feeResult.samples.fees
        IN  IF Len(fees) = 0 THEN feeResult.dynamicFee = Null
            ELSE feeResult.dynamicFee = Interpolated70(fees)

(* C22 amended: the dynamic plugin returns the sample at index             *)
(* floor(0.7 * n) of the n samples sorted ascending, without interpolation *)
(* (for five samples the fourth smallest); the single sample when there is *)
(* one; null when there is none or the fetch failed.                       *)
C22_PercentileAmended ==
    Calculated =>
        LET fees == feeResult.samples.fees
            k == (Len(fees) * 70) \div 100
            r == feeResult.dynamicFee
        IN  IF feeResult.samples.error \/ Len(fees) = 0 THEN r = Null
            ELSE /\ \E i \in DOMAIN fees : fees[i] = r
                 /\ CountBelow(fees, r) <= k
                 /\ CountUpTo(fees, r) > k
                 /\ Len(fees) = 1 => r = fees[1]

(* C22 witness: five unsorted samples 5000, 4000, 0, 2000, 1000 gave the   *)
(* fourth smallest, 4000, where interpolation gives 3600.                  *)
C22_Witness ==
    /\ Calculated
    /\ Len(feeResult.samples.fees) = 5
    /\ feeResult.dynamicFee = 4000
    /\ Interpolated70(feeResult.samples.fees) = 3600

-----------------------------------------------------------------------------
(* BondingCurveStateParser and BondingCurveManager.                        *)
(*                                                                         *)
(* Account data is a sequence of bytes.  The u64 fields of the inputs stay *)
(* below 2^31, and SOL amounts are counted in thousandths of a SOL         *)
(* (LAMPORTS_PER_SOL is 10^9 in the code and 10^3 here), so that 85 SOL    *)
(* and more can be written down.  JavaScript numbers are modelled as       *)
(* reduced fractions [n, d].                                               *)

NumAddresses == 2

Addresses == 1 .. NumAddresses

LAMPORTS_PER_SOL == 1000

TOKEN_DECIMALS == 6

BONDING_CURVE_DISCRIMINATOR == <<23, 183, 209, 54, 40, 24, 90, 96>>

PUBLIC_KEY_LENGTH == 32

RECURSIVE GCD(_, _)
GCD(a, b) == IF b = 0 THEN a ELSE GCD(b, a % b)

Rat(n, d) == LET g == GCD(n, d) IN [n |-> n \div g, d |-> d \div g]

(* x / y for y # 0 *)
RatDiv(x, y) ==
    LET g1 == GCD(x.n, y.n)
        g2 == GCD(y.d, x.d)
    IN  IF x.n = 0 THEN Rat(0, 1)
        ELSE Rat((x.n \div g1) * (y.d \div g2), (x.d \div g2) * (y.n \div g1))

(* x * y *)
RatMul(x, y) ==
    LET g1 == GCD(x.n, y.d)
        g2 == GCD(y.n, x.d)
    IN  Rat((x.n \div g1) * (y.n \div g2), (x.d \div g2) * (y.d \div g1))

RatLeq(x, y) == x.n * y.d <= y.n * x.d

RECURSIVE Pow10(_)
Pow10(k) == IF k = 0 THEN 1 ELSE 10 * Pow10(k - 1)

(* Buffer.subarray(start, end): the end is clamped to the buffer. *)
subarray(data, start, end) ==
    SubSeq(data, start + 1, IF end < Len(data) THEN end ELSE Len(data))

(* The little-endian number in the n bytes of data after offset. *)
RECURSIVE readLE(_, _, _)
readLE(data, offset, n) ==
    IF n = 0 THEN 0 ELSE data[offset + 1] + 256 * readLE(data, offset + 1, n - 1)

readBigUInt64LE(data, offset) == readLE(data, offset, 8)

(* new PublicKey(bytes): a big-endian number of at most 32 bytes, kept as  *)
(* its 32-byte form; shorter input is padded with zeros in front.          *)
PublicKey(bytes) ==
    IF Len(bytes) > PUBLIC_KEY_LENGTH THEN [error |-> "InvalidPublicKey"]
    ELSE [error |-> "none",
          key |-> [i \in 1 .. PUBLIC_KEY_LENGTH |->
                      IF i <= PUBLIC_KEY_LENGTH - Len(bytes) THEN 0
                      ELSE bytes[i - (PUBLIC_KEY_LENGTH - Len(bytes))]]]

(* A parse that tests the record length before the discriminator. *)
parse_LengthFirst(data) ==
    LET requiredLength == 8 + 8 + 8 + 8 + 8 + 8 + 1 IN
    IF Len(data) < 8 THEN [error |-> "TooShort"]
    ELSE IF Len(data) < requiredLength THEN [error |-> "InsufficientLength"]
    ELSE IF subarray(data, 0, 8) # BONDING_CURVE_DISCRIMINATOR
    THEN [error |-> "InvalidDiscriminator"]
    ELSE LET creator == PublicKey(subarray(data, 49, 49 + 32))
         IN  IF creator.error # "none" THEN [error |-> creator.error]
             ELSE [error |-> "none",
                   state |-> [virtualTokenReserves |-> readBigUInt64LE(data, 8),
                              virtualSolReserves |-> readBigUInt64LE(data, 16),
                              realTokenReserves |-> readBigUInt64LE(data, 24),
                              realSolReserves |-> readBigUInt64LE(data, 32),
                              tokenTotalSupply |-> readBigUInt64LE(data, 40),
                              complete |-> data[48 + 1] # 0,
                              creator |-> creator.key]]

(* BondingCurveStateParser.parse(data) *)
parse(data) ==
    LET requiredLength == 8 + 8 + 8 + 8 + 8 + 8 + 1 IN
    IF Len(data) < 8 THEN [error |-> "TooShort"]
    ELSE IF subarray(data, 0, 8) # BONDING_CURVE_DISCRIMINATOR
    THEN [error |-> "InvalidDiscriminator"]
    ELSE IF Len(data) < requiredLength THEN [error |-> "InsufficientLength"]
    ELSE LET creator == PublicKey(subarray(data, 49, 49 + 32))
         IN  IF creator.error # "none" THEN [error |-> creator.error]
             ELSE [error |-> "none",
                   state |-> [virtualTokenReserves |-> readBigUInt64LE(data, 8),
                              virtualSolReserves |-> readBigUInt64LE(data, 16),
                              realTokenReserves |-> readBigUInt64LE(data, 24),
                              realSolReserves |-> readBigUInt64LE(data, 32),
                              tokenTotalSupply |-> readBigUInt64LE(data, 40),
                              complete |-> data[48 + 1] # 0,
                              creator |-> creator.key]]

(* A calculatePrice that scales the SOL side by the token decimals and the *)
(* token side by the lamports.                                             *)
calculatePrice_SwappedUnits(state) ==
    IF state.virtualTokenReserves <= 0 \/ state.virtualSolReserves <= 0
    THEN [error |-> "InvalidReserves"]
    ELSE [error |-> "none",
          value |-> RatDiv(Rat(state.virtualSolReserves, Pow10(TOKEN_DECIMALS)),
                           Rat(state.virtualTokenReserves, LAMPORTS_PER_SOL))]

(* BondingCurveStateParser.calculatePrice(state) *)
calculatePrice(state) ==
    IF state.virtualTokenReserves <= 0 \/ state.virtualSolReserves <= 0
    THEN [error |-> "InvalidReserves"]
    ELSE [error |-> "none",
          value |-> RatDiv(Rat(state.virtualSolReserves, LAMPORTS_PER_SOL),
                           Rat(state.virtualTokenReserves, Pow10(TOKEN_DECIMALS)))]

getTokenReserves(state) == Rat(state.virtualTokenReserves, Pow10(TOKEN_DECIMALS))

getSolReserves(state) == Rat(state.virtualSolReserves, LAMPORTS_PER_SOL)

(* price * totalSupply, for a state whose price exists *)
calculateMarketCap(state) ==
    RatMul(calculatePrice(state).value,
           Rat(state.tokenTotalSupply, Pow10(TOKEN_DECIMALS)))

(* Math.min((currentSol / maxSolReserves) * 100, 100) *)
calculateProgress(state) ==
    LET maxSolReserves == 85
        currentSol == getSolReserves(state)
        percent == RatMul(RatDiv(currentSol, Rat(maxSolReserves, 1)), Rat(100, 1))
    IN  IF RatLeq(percent, Rat(100, 1)) THEN percent ELSE Rat(100, 1)

(* What connection.getAccountInfo answers is a failed request (kind       *)
(* "rpcError"), null (kind "null") or an account with data.               *)
Account(data) == [kind |-> "account", data |-> data]

(* BondingCurveManager.getCurveState on the answer of getAccountInfo; the  *)
(* request goes to the connection directly.                                *)
getCurveState(accountInfo) ==
    IF accountInfo.kind = "rpcError" THEN [error |-> "RpcError"]
    ELSE IF accountInfo.kind = "null" THEN [error |-> "NoData"]
    ELSE IF Len(accountInfo.data) = 0 THEN [error |-> "EmptyAccount"]
    ELSE LET r == parse(accountInfo.data)
         IN  IF r.error # "none" THEN r
             ELSE IF calculatePrice(r.state).error # "none"
             THEN [error |-> calculatePrice(r.state).error]
             ELSE r

(* BondingCurveManager.getBondingCurveData on the answer of getAccountInfo *)
BondingCurveManager_getBondingCurveData(accountInfo) ==
    LET r == getCurveState(accountInfo)
    IN  IF r.error # "none" THEN r
        ELSE [error |-> "none",
              data |-> [state |-> r.state,
                        price |-> calculatePrice(r.state).value,
                        tokenReserves |-> getTokenReserves(r.state),
                        solReserves |-> getSolReserves(r.state),
                        marketCap |-> calculateMarketCap(r.state),
                        progress |-> calculateProgress(r.state)]]

(* The accounts the addresses may hold: records written in the layout      *)
(* parse reads, whole or cut short, and one with another discriminator.    *)
u64le(v) ==
    <<v % 256, (v \div 256) % 256, (v \div 65536) % 256, (v \div 16777216) % 256,
      0, 0, 0, 0>>

Encode(state) ==
    BONDING_CURVE_DISCRIMINATOR
      \o u64le(state.virtualTokenReserves) \o u64le(state.virtualSolReserves)
      \o u64le(state.realTokenReserves) \o u64le(state.realSolReserves)
      \o u64le(state.tokenTotalSupply)
      \o << IF state.complete THEN 1 ELSE 0 >> \o state.creator

CurveState(vtr, vsr, rsr) ==
    [virtualTokenReserves |-> vtr, virtualSolReserves |-> vsr,
     realTokenReserves |-> vtr, realSolReserves |-> rsr,
     tokenTotalSupply |-> 1000000000, complete |-> FALSE,
     creator |-> [i \in 1 .. PUBLIC_KEY_LENGTH |-> i]]

CurveStates ==
    { CurveState(1000000000, vsr, rsr) : vsr \in {30000, 115000}, rsr \in {0, 85000} }
      \cup { CurveState(0, 30000, 0), CurveState(1000000000, 0, 0) }

AccountSamples ==
    {[kind |-> "rpcError", data |-> <<>>], [kind |-> "null", data |-> <<>>],
     Account(<<>>)}
      \cup { Account(Encode(s)) : s \in CurveStates }
      \cup { Account(subarray(Encode(CurveState(1000000000, 30000, 0)), 0, n)) :
               n \in {7, 8, 48, 49, 72} }
      \cup { Account(<<0>> \o Tail(subarray(Encode(CurveState(1000000000, 30000, 0)), 0, n))) :
               n \in {48, 81} }

(* getMultipleCurveStates(curveAddresses): every address's request is     *)
(* issued before the first await.                                         *)
BatchStart(curveAddresses) ==
    /\ batch.pc \in {"idle", "returned"}
    /\ batch' = [pc |-> "running", addresses |-> curveAddresses,
                 pending |-> curveAddresses, results |-> <<>>,
                 decoded |-> <<>>, outcomes |-> <<>>]
    /\ UNCHANGED chain

(* A getMultipleCurveStates in which a failed address rejects the batch.  *)
BatchSettle_Abort(address) ==
    /\ batch.pc = "running"
    /\ address \in batch.pending
    /\ LET r == BondingCurveManager_getBondingCurveData(chain[address])
       IN  batch' = [batch EXCEPT
               !.pc = IF r.error = "none" THEN @ ELSE "failed",
               !.pending = @ \ {address},
               !.results = IF r.error = "none" THEN MapSet(@, address, r.data)
                           ELSE <<>>,
               !.decoded = IF chain[address].kind = "account"
                              /\ Len(chain[address].data) > 0
                           THEN MapSet(@, address, parse(chain[address].data))
                           ELSE @,
               !.outcomes = MapSet(@, address, r.error)]
    /\ UNCHANGED chain

(* The callback of one address resumes with the answer of getAccountInfo: *)
(* results.set on success, a warning otherwise.                           *)
BatchSettle(address) ==
    /\ batch.pc = "running"
    /\ address \in batch.pending
    /\ LET r == BondingCurveManager_getBondingCurveData(chain[address])
       IN  batch' = [batch EXCEPT
               !.pending = @ \ {address},
               !.results = IF r.error = "none" THEN MapSet(@, address, r.data)
                           ELSE @,
               !.decoded = IF chain[address].kind = "account"
                              /\ Len(chain[address].data) > 0
                           THEN MapSet(@, address, parse(chain[address].data))
                           ELSE @,
               !.outcomes = MapSet(@, address, r.error)]
    /\ UNCHANGED chain

(* Promise.allSettled resolves once every callback has finished. *)
BatchReturn ==
    /\ batch.pc = "running"
    /\ batch.pending = {}
    /\ batch' = [batch EXCEPT !.pc = "returned"]
    /\ UNCHANGED chain

InitCurveManager ==
    /\ InitPM /\ InitRL /\ InitEx /\ InitFee /\ InitTicks
    /\ chain \in [Addresses -> AccountSamples]
    /\ batch = BatchIdle

NextCurve ==
    \/ \E curveAddresses \in SUBSET Addresses :
           BatchStart(curveAddresses) /\ UNCHANGED <<pmVars, rlVars, exVars, feeVars, tickVars>>
    \/ \E address \in Addresses :
           BatchSettle(address) /\ UNCHANGED <<pmVars, rlVars, exVars, feeVars, tickVars>>
    \/ BatchReturn /\ UNCHANGED <<pmVars, rlVars, exVars, feeVars, tickVars>>

SpecCurve == InitCurveManager /\ [][NextCurve]_vars

(* C23: decode fails, and yields no state, for every buffer shorter than 8 *)
(* bytes (too short), for every buffer whose first 8 bytes are not the     *)
(* discriminator (InvalidDiscriminator), and for every buffer shorter than *)
(* 73 bytes (TruncatedRecord, the parser's insufficient-length error).     *)
C23_DecodeRejects ==
    \A address \in Addresses :
        MapHas(batch.decoded, address) =>
            LET data == chain[address].data
                r == MapGet(batch.decoded, address)
            IN  /\ Len(data) < 8 => r = [error |-> "TooShort"]
                /\ (/\ Len(data) >= 8
                    /\ subarray(data, 0, 8) # BONDING_CURVE_DISCRIMINATOR)
                   => r = [error |-> "InvalidDiscriminator"]
                /\ (/\ Len(data) >= 8
                    /\ subarray(data, 0, 8) = BONDING_CURVE_DISCRIMINATOR
                    /\ Len(data) < 73)
                   => r = [error |-> "InsufficientLength"]

(* C24: getMultipleCurveStates never fails, and the map it builds holds    *)
(* exactly the addresses whose fetch, decode and derivation succeeded,     *)
(* each with its own data, whatever happened to the other addresses.       *)
C24_BatchCollectsSuccesses ==
    LET PipelineSucceeds(accountInfo) ==
            /\ accountInfo.kind = "account"
            /\ Len(accountInfo.data) > 0
            /\ parse(accountInfo.data).error = "none"
            /\ calculatePrice(parse(accountInfo.data).state).error = "none"
    IN
    /\ batch.pc \in {"idle", "running", "returned"}
    /\ batch.pc = "returned" => batch.pending = {}
    /\ \A address \in Addresses :
          IF address \in batch.addresses \ batch.pending
          THEN /\ MapHas(batch.results, address) <=> PipelineSucceeds(chain[address])
               /\ MapHas(batch.results, address) =>
                      MapGet(batch.results, address) =
                          BondingCurveManager_getBondingCurveData(chain[address]).data
          ELSE ~MapHas(batch.results, address)

C24_Witness ==
    /\ batch.pc = "returned"
    /\ \E a, b \in batch.addresses :
          /\ MapHas(batch.results, a)
          /\ MapGet(batch.outcomes, b) # "none"

(* C25: progress never exceeds 100, is exactly 100 for every state whose   *)
(* realSolReserves has reached 85 SOL, and does not decrease when          *)
(* realSolReserves grows with the other fields fixed.                      *)
C25_Progress ==
    \A a \in Addresses :
        MapHas(batch.results, a) =>
            LET e == MapGet(batch.results, a)
            IN  /\ RatLeq(e.progress, Rat(100, 1))
                /\ e.state.realSolReserves >= 85 * LAMPORTS_PER_SOL
                       => e.progress = Rat(100, 1)
                /\ \A b \in Addresses :
                       MapHas(batch.results, b) =>
                           LET f == MapGet(batch.results, b)
                           IN  (/\ [e.state EXCEPT !.realSolReserves = 0]
                                      = [f.state EXCEPT !.realSolReserves = 0]
                                /\ e.state.realSolReserves <= f.state.realSolReserves)
                               => RatLeq(e.progress, f.progress)

(* C29: for a decoded state with both virtual reserves positive, the price *)
(* times the token reserves in display units is the SOL reserves in        *)
(* display units; with a virtual reserve of zero the price is refused as   *)
(* invalid reserves.                                                       *)
C29_PriceIdentity ==
    \A a \in Addresses :
        /\ MapHas(batch.results, a) =>
               LET e == MapGet(batch.results, a)
               IN  /\ e.state.virtualTokenReserves > 0
                   /\ e.state.virtualSolReserves > 0
                   /\ RatMul(e.price,
                             Rat(e.state.virtualTokenReserves, Pow10(TOKEN_DECIMALS)))
                        = Rat(e.state.virtualSolReserves, LAMPORTS_PER_SOL)
        /\ (/\ MapHas(batch.decoded, a)
            /\ MapGet(batch.decoded, a).error = "none")
           => LET state == MapGet(batch.decoded, a).state
              IN  (state.virtualTokenReserves <= 0 \/ state.virtualSolReserves <= 0)
                  => /\ MapGet(batch.outcomes, a) = "InvalidReserves"
                     /\ ~MapHas(batch.results, a)

C29_Witness ==
    \E a, b \in Addresses :
        /\ MapHas(batch.results, a)
        /\ MapHas(batch.outcomes, b)
        /\ MapGet(batch.outcomes, b) = "InvalidReserves"

(* C26: every price fetch started by a periodic check goes through the     *)
(* shared rate limiter, so it adds an entry to the limiter's rolling       *)
(* window of request times.                                                *)
C26_FetchThroughLimiter ==
    [][(\E h \in timers : TickFetch(h)) => requestTimes' # requestTimes]_vars

(* C28: calculatePnL on an active position without a price fails and       *)
(* changes nothing; otherwise, with the given price while active and the   *)
(* recorded exitPrice once closed, unrealizedPnl = (price - entryPrice) *  *)
(* quantity and roi = unrealizedPnl / solInvested * 100.                   *)
C28_PnL ==
    [][(\E currentPrice \in TickPrices \cup {Undefined} : PricePnL(currentPrice))
       => /\ pos' = pos
          /\ LET r == pnlCall'.result
                 price == IF pos.isActive THEN pnlCall'.price ELSE pos.exitPrice
             IN  IF pos.isActive /\ pnlCall'.price = Undefined
                 THEN DOMAIN r = {"error"}
                 ELSE /\ "error" \notin DOMAIN r
                      /\ r.unrealizedPnlSol = (price - pos.entryPrice) * pos.quantity
                      /\ r.roi = (r.unrealizedPnlSol * 100) \div pos.solInvested]_vars

C28_Witness ==
    /\ pnlCall.called
    /\ pnlCall.position.isActive
    /\ pnlCall.price = Undefined
    /\ DOMAIN pnlCall.result = {"error"}

(* C30: a periodic check of an active position that obtained a price emits *)
(* exactly one event: positionExit with the position, the fetched price,   *)
(* the reason and the urgency when shouldExit signals an exit, otherwise   *)
(* priceUpdate with the PnL at the fetched price, leaving the timers as    *)
(* they are.                                                               *)
C30_OneSignalPerCheck ==
    [][\A c \in BagToSet(checks), outcome \in MonitorOutcomes :
          (/\ CheckExit(c, outcome) \/ CheckUpdate(c, outcome)
           /\ heap[c.pos].isActive)
          => LET price == outcome.price
                 x == shouldExit(heap[c.pos], price, now)
                 p == heap[c.pos]
             IN  /\ outcome.error = ""
                 /\ Len(emitted') = 1
                 /\ IF x.shouldExit
                    THEN /\ emitted'[1].kind = "positionExit"
                         /\ emitted'[1].position = c.pos
                         /\ emitted'[1].currentPrice = price
                         /\ emitted'[1].exitReason = x.reason
                         /\ emitted'[1].urgency = x.urgency
                    ELSE /\ emitted'[1].kind = "priceUpdate"
                         /\ emitted'[1].currentPrice = price
                         /\ emitted'[1].pnl = (price - p.entryPrice) * p.quantity
                         /\ timers' = timers
                         /\ monitoringTasks' = monitoringTasks]_vars

C30_Witness ==
    /\ last.op = "checkUpdate"
    /\ Len(emitted) = 1
    /\ emitted[1].kind = "priceUpdate"
    /\ heap[emitted[1].position].isActive
    /\ emitted[1].pnl # 0

-----------------------------------------------------------------------------
(* The monitor with positions whose price fetch never completes or always  *)
(* fails (StuckTokens) next to a position whose fetch returns a price at   *)
(* the take-profit threshold (OtherToken).  The timer of OtherToken keeps  *)
(* firing and its fetch completes: setInterval callbacks and resolved      *)
(* promises are always run by the event loop.                              *)

OtherToken == NumTokens

StuckTokens == Tokens \ {OtherToken}

LiveFrame == UNCHANGED <<steps, rlVars, exVars, feeVars, tickVars, curveVars>>

(* A stuck position's tick; the model keeps one fetch slot free. *)
TickStuck ==
    \E h \in timers :
        /\ heap[h].mint \in StuckTokens
        /\ Suspended < MaxSuspended - 1
        /\ TickFetch(h)
        /\ LiveFrame

FailStuck ==
    \E c \in BagToSet(checks), outcome \in MonitorOutcomes :
        /\ c.id \in StuckTokens
        /\ CheckSkip(c, outcome)
        /\ LiveFrame

TickOther ==
    \E h \in timers :
        /\ heap[h].mint = OtherToken
        /\ TickFetch(h)
        /\ LiveFrame

ExitOther ==
    \E c \in BagToSet(checks) :
        /\ c.id = OtherToken
        /\ CheckExit(c, [error |-> "", price |-> 151])
        /\ LiveFrame

NextLive ==
    \/ \E token \in Tokens, entryPrice \in EntryPrices, config \in PositionConfigs :
           CreatePosition(token, entryPrice, config) /\ LiveFrame
    \/ \E h \in timers : TickStop(h) /\ LiveFrame
    \/ TickStuck
    \/ FailStuck
    \/ TickOther
    \/ ExitOther
    \/ \E s \in BagToSet(sells), price \in SellPrices : SellSucceeds(s, price) /\ LiveFrame
    \/ \E s \in BagToSet(sells) : SellFails(s) /\ LiveFrame

SpecLive == Init /\ [][NextLive]_vars /\ WF_vars(TickOther) /\ WF_vars(ExitOther)

(* C27: while the checks of other positions hang in their fetch or fail,   *)
(* a registered position whose price meets its take-profit threshold       *)
(* eventually has its positionExit emitted.                                *)
C27_OtherPositionExits ==
    Registered(OtherToken)
        ~> (\E o \in DOMAIN heap : heap[o].mint = OtherToken /\ exited[o])

C27_Witness ==
    /\ \E c \in BagToSet(checks) : c.id \in StuckTokens
    /\ \E o \in DOMAIN heap : heap[o].mint = OtherToken /\ exited[o]

(* C31: on an active position shouldExit reports max_hold_time with        *)
(* urgency medium exactly when a hold time is configured and has elapsed   *)
(* and no take-profit, stop-loss or trailing-stop threshold of the         *)
(* position is met by the price; a met price threshold is reported with    *)
(* urgency high instead; with nothing met the result is no exit, urgency   *)
(* low.                                                                    *)
C31_MaxHoldTime ==
    \A k \in DOMAIN ticks :
        LET e == ticks[k]
            q == e.after
            priceHit ==
                \/ q.takeProfitPrice # Undefined /\ e.price >= q.takeProfitPrice
                \/ q.stopLossPrice # Undefined /\ e.price <= q.stopLossPrice
                \/ q.trailingStopPrice # Undefined /\ e.price <= q.trailingStopPrice
            timeHit ==
                /\ tconfig.maxHoldTime # Undefined
                /\ e.time - q.entryTime >= tconfig.maxHoldTime
        IN  e.before.isActive =>
              /\ (e.result.reason = "max_hold_time") <=> (~priceHit /\ timeHit)
              /\ e.result.reason = "max_hold_time"
                   => e.result.shouldExit /\ e.result.urgency = "medium"
              /\ priceHit => /\ e.result.shouldExit
                             /\ e.result.urgency = "high"
                             /\ e.result.reason \in {"take_profit", "stop_loss"}
              /\ (~priceHit /\ ~timeHit)
                   => e.result = [shouldExit |-> FALSE, reason |-> NoReason,
                                  urgency |-> "low"]

(* C31 witness: the hold time has elapsed at a tick that meets a price     *)
(* threshold, after an earlier tick at which only the hold time was met.   *)
C31_Witness ==
    \E j, k \in DOMAIN ticks :
        /\ j < k
        /\ ticks[j].before.isActive /\ ticks[k].before.isActive
        /\ ticks[j].result.reason = "max_hold_time"
        /\ ticks[k].time - ticks[k].before.entryTime >= tconfig.maxHoldTime
        /\ tconfig.maxHoldTime # Undefined
        /\ ticks[k].result.urgency = "high"

(* C37: shouldExit on a closed position reports no exit with urgency low   *)
(* for every price and leaves every field of the position as it was.       *)
C37_ClosedUntouched ==
    \A k \in DOMAIN ticks :
        ~ticks[k].before.isActive =>
            /\ ticks[k].result = [shouldExit |-> FALSE, reason |-> NoReason,
                                  urgency |-> "low"]
            /\ ticks[k].after = ticks[k].before

(* C37 witness: a closed position is asked at a price above its high water *)
(* mark and at or above its take-profit price.                             *)
C37_Witness ==
    \E k \in DOMAIN ticks :
        /\ ~ticks[k].before.isActive
        /\ ticks[k].price > ticks[k].before.highWaterMark
        /\ ticks[k].before.takeProfitPrice # Undefined
        /\ ticks[k].price >= ticks[k].before.takeProfitPrice

(* C33: the discriminator is tested before the record length: a buffer of  *)
(* 8 to 72 bytes whose first 8 bytes are not the discriminator fails with  *)
(* InvalidDiscriminator, not with the insufficient-length error.           *)
C33_DiscriminatorBeforeLength ==
    \A address \in Addresses :
        (/\ MapHas(batch.decoded, address)
         /\ Len(chain[address].data) >= 8
         /\ Len(chain[address].data) <= 72
         /\ subarray(chain[address].data, 0, 8) # BONDING_CURVE_DISCRIMINATOR)
        => /\ MapGet(batch.decoded, address) = [error |-> "InvalidDiscriminator"]
           /\ MapGet(batch.outcomes, address) = "InvalidDiscriminator"

C33_Witness ==
    \E address \in Addresses :
        /\ MapHas(batch.decoded, address)
        /\ Len(chain[address].data) = 48
        /\ subarray(chain[address].data, 0, 8) # BONDING_CURVE_DISCRIMINATOR
        /\ MapGet(batch.outcomes, address) = "InvalidDiscriminator"

(* C38: for every configuration, maxRetries = 0 included, a finished       *)
(* executeRPCCall has invoked rpcCall at least once, and when it has       *)
(* thrown, it has thrown the error of rpcCall's last attempt.              *)
C38_InvokedAtLeastOnce ==
    ex.pc \in {"returned", "thrown"} =>
        /\ ex.invoked >= 1
        /\ ex.pc = "thrown" => /\ ex.error.name # "null"
                               /\ ex.error = LastOutcome(ex)

(* C40: every attempt of executeRPCCall appends exactly one timestamp, its *)
(* own start, to requestTimes; an entry is dropped only when it is at      *)
(* least one second old; and the window an attempt finds after the prune   *)
(* at its start holds exactly the attempts started less than one second    *)
(* before.                                                                 *)
C40_WindowHoldsRecentAttempts ==
    [][LET Young(times) == SelectSeq(times, LAMBDA time : clock - time < WindowMs)
           begins == ex.pc = "loop" /\ ex'.pc \in {"waiting", "calling"}
           records == ex'.invoked = ex.invoked + 1
           base == IF records THEN SubSeq(requestTimes', 1, Len(requestTimes') - 1)
                   ELSE requestTimes'
       IN  /\ records <=> (ex'.pc = "calling" /\ ex.pc # "calling")
           /\ records => /\ Len(requestTimes') >= 1
                         /\ requestTimes'[Len(requestTimes')] = clock'
                         /\ started' = Append(started, clock')
           /\ Young(base) = Young(requestTimes)
           /\ Len(base) <= Len(requestTimes)
           /\ begins => base = Young(started)
      ]_vars

(* C40 witness: a retry started after an earlier attempt had left the      *)
(* window, with a younger attempt still in it.                             *)
C40_Witness ==
    /\ ex.pc = "calling"
    /\ ex.attempt = 3
    /\ Len(started) = 3
    /\ started[2] - started[1] < WindowMs
    /\ requestTimes = <<started[3]>>

(* C39: with hardCap > 0 and extraFeePercentage >= 0 the fee returned by   *)
(* calculatePriorityFee is strictly positive, whatever the dynamic plugin  *)
(* returned and whichever tiers are enabled.                               *)
C39_FeePositive ==
    (/\ Calculated
     /\ feeResult.config.hardCap > 0
     /\ feeResult.config.extraFeePercentage >= 0)
    => feeResult.fee > 0

(* C39 witness: no tier supplies a fee (dynamic disabled or without a      *)
(* value, fixed disabled or zero) and the result is positive.              *)
C39_Witness ==
    /\ Calculated
    /\ feeResult.accounts # "invalid"
    /\ ~feeResult.config.enableDynamicFee \/ feeResult.dynamicFee = Null
    /\ ~feeResult.config.enableFixedFee \/ feeResult.config.fixedFee = 0
    /\ feeResult.fee > 0

-----------------------------------------------------------------------------
(* C32: for a position of its snapshot emergencyCloseAllPositions emits    *)
(* one positionExit with reason manual and urgency high, priced at the     *)
(* position's current on-chain price when the chain answers with one and   *)
(* at the entry price when the fetch fails.                                *)
C32_EmergencySignal ==
    last.op = "emergencyEmit" =>
        LET o == Head(em.queue)
            answer == last.arg[1]
        IN  emitted = << [kind |-> "positionExit", position |-> o,
                          token |-> heap[o].mint,
                          currentPrice |-> IF answer.error = "" THEN answer.price
                                           ELSE heap[o].entryPrice,
                          exitReason |-> "manual", urgency |-> "high"] >>

(* C34: no priceUpdate and no positionExit is emitted for a position that  *)
(* closePosition has closed (a closed position stays closed, so the        *)
(* position of every signal just emitted is still active).                 *)
C34_NoSignalAfterClose ==
    \A i \in DOMAIN emitted : heap[emitted[i].position].isActive

(* C35: every scheduled interval timer is the one stored in the task map   *)
(* under its position id, so at most one is scheduled per position id.     *)
C35_TimersInTaskMap ==
    \A h \in timers :
        /\ heap[h].mint \in DOMAIN monitoringTasks
        /\ monitoringTasks[heap[h].mint] = h

(* C36: at most one positionExit is outstanding per position at the        *)
(* execution layer across the emergency close: while a handlePositionExit  *)
(* started by the emergency close waits for its sell, no other             *)
(* handlePositionExit for the same token waits for one.                    *)
C36_OneExitOutstanding ==
    \A s \in BagToSet(sells) :
        s.exitReason = "manual" =>
            /\ CopiesIn(s, sells) = 1
            /\ \A r \in BagToSet(sells) : r.token = s.token => r = s
====
